---- MODULE Spec2Model ----
(***************************************************************************)
(* Model of the dex-defi-bot core: the TTL cache and the risk score of     *)
(* src/utils/helpers.py, the yield pipeline of src/services/               *)
(* yield_service.py and the sentiment/signal pipeline of src/services/     *)
(* trading_service.py.                                                     *)
(*                                                                         *)
(* Numbers are scaled integers, arithmetic on them is exact:               *)
(*   apy and price changes   thousandths of a percent (8500 is 8.5 %)      *)
(*   formatted percentages   hundredths of a percent, with a sign          *)
(*   tvlUsd, min_tvl         thousands of dollars (1000 is $1,000,000)     *)
(*   volatility              hundredths (50 is 0.5)                        *)
(*   risk scores             score * RiskScale                             *)
(*   time                    seconds                                       *)
(***************************************************************************)
EXTENDS Integers, Sequences, FiniteSets, TLC

VARIABLES
    cache,  \* helpers._cache: key -> [data, expires]
    now,    \* time.time(), in seconds
    pools,  \* the pool listing the yield provider serves
    call,   \* the request under way: operation, arguments, position
    ret,    \* what the last completed operation returned, with what it read
    hist    \* history of earlier calls, read by the properties only

vars == <<cache, now, pools, call, ret, hist>>

(***************************************************************************)
(* Bounds of the model.                                                    *)
(***************************************************************************)
MaxTime == 3
MaxPools == 2

(***************************************************************************)
(* Python values.  A value is a record [t, v]: t is its kind, v its        *)
(* (scaled) magnitude.  "num" is an int or float inside the float range,   *)
(* "bigint" an int beyond it (10**400 with v = 1, -10**400 with v = -1),   *)
(* "none" is None, "str" a text.  A raised exception is a value whose kind *)
(* is the exception's class.                                               *)
(***************************************************************************)
Num(n) == [t |-> "num", v |-> n]
BigInt(s) == [t |-> "bigint", v |-> s]
NoneV == [t |-> "none", v |-> 0]
StrV == [t |-> "str", v |-> 0]
TypeError == [t |-> "TypeError", v |-> 0]
OverflowError == [t |-> "OverflowError", v |-> 0]

IsExc(x) == x.t \in {"TypeError", "OverflowError", "ValueError"}
IsNumeric(x) == x.t \in {"num", "bigint"}

\* A key absent from a JSON object, and dict.get(key, default) on it
Missing == [t |-> "missing", v |-> 0]
PoolGet(field, default) == IF field.t = "missing" THEN default ELSE field

Min2(a, b) == IF a < b THEN a ELSE b
Max2(a, b) == IF a > b THEN a ELSE b

(***************************************************************************)
(* helpers.calculate_risk_score                                            *)
(***************************************************************************)
RiskScale == 3 * 10000

\* vol_score = min(10, volatility * 10), in hundredths.  str * 10 is a str,
\* None * 10 a TypeError; min(10, str) a TypeError; an int beyond the float
\* range stays an int.
VolScore(volatility) ==
    CASE volatility.t = "num" -> Num(Min2(1000, volatility.v * 10))
      [] volatility.t = "bigint" ->
            IF volatility.v > 0 THEN Num(1000) ELSE volatility
      [] OTHER -> TypeError

\* liq_score = max(0, 10 - (liquidity / 1000000)), in thousandths.  The true
\* division of an int beyond the float range raises OverflowError.
LiqScore(liquidity) ==
    CASE liquidity.t = "num" -> Num(Max2(0, 10000 - liquidity.v))
      [] liquidity.t = "bigint" -> OverflowError
      [] OTHER -> TypeError

\* age_score = max(0, 10 - (protocol_age / 30)), in thirtieths.
AgeScore(protocol_age) ==
    CASE protocol_age.t = "num" -> Num(Max2(0, 300 - protocol_age.v))
      [] protocol_age.t = "bigint" -> OverflowError
      [] OTHER -> TypeError

\* risk_score = vol_score * 0.5 + liq_score * 0.3 + age_score * 0.2 and the
\* final clamp, times RiskScale.  int * 0.5 raises OverflowError for an int
\* beyond the float range.
WeightedScore(vol_score, liq_score, age_score) ==
    IF vol_score.t = "bigint" THEN OverflowError
    ELSE LET risk_score == 150 * vol_score.v + 9 * liq_score.v
                           + 200 * age_score.v
         IN  Num(Min2(10 * RiskScale, Max2(0, risk_score)))

\* The body of the try block: the three lines run in order and the first
\* exception ends it.
RiskTry(volatility, liquidity, protocol_age) ==
    LET vol_score == VolScore(volatility)
        liq_score == LiqScore(liquidity)
        age_score == AgeScore(protocol_age)
    IN  IF IsExc(vol_score) THEN vol_score
        ELSE IF IsExc(liq_score) THEN liq_score
        ELSE IF IsExc(age_score) THEN age_score
        ELSE WeightedScore(vol_score, liq_score, age_score)

\* except (TypeError, ValueError): return 5.  Any other exception leaves the
\* function.
calculate_risk_score(volatility, liquidity, protocol_age) ==
    LET r == RiskTry(volatility, liquidity, protocol_age)
    IN  IF r.t \in {"TypeError", "ValueError"} THEN Num(5 * RiskScale) ELSE r

(***************************************************************************)
(* The risk score alone: Init draws the three arguments, the action        *)
(* applies the function.                                                   *)
(***************************************************************************)
NoRet == [op |-> "none"]
Idle == [op |-> "none"]
NoHist == [kind |-> "none"]

NonNumbers == {NoneV, StrV}
Volatilities ==
    {Num(n) : n \in {-100000, -100, 0, 50, 100, 250}}
        \cup {BigInt(1), BigInt(-1)} \cup NonNumbers
Liquidities ==
    {Num(n) : n \in {-100000, 0, 5000, 10000, 100000}}
        \cup {BigInt(1), BigInt(-1)} \cup NonNumbers
ProtocolAges ==
    {Num(n) : n \in {-100000, 0, 365, 100000}}
        \cup {BigInt(1), BigInt(-1)} \cup NonNumbers

InitRisk ==
    /\ cache = << >>
    /\ now = 0
    /\ pools = << >>
    /\ \E vol \in Volatilities, liq \in Liquidities, age \in ProtocolAges :
          call = [op |-> "calculate_risk_score", volatility |-> vol,
                  liquidity |-> liq, protocol_age |-> age]
    /\ ret = NoRet
    /\ hist = NoHist

CalculateRiskScore ==
    /\ call.op = "calculate_risk_score"
    /\ ret = NoRet
    /\ ret' = [op |-> "calculate_risk_score",
               result |-> calculate_risk_score(call.volatility,
                              call.liquidity, call.protocol_age)]
    /\ UNCHANGED <<cache, now, pools, call, hist>>

NextRisk == CalculateRiskScore

SpecRisk == InitRisk /\ [][NextRisk]_vars

RiskReturned == ret.op = "calculate_risk_score"

RiskArgs == <<call.volatility, call.liquidity, call.protocol_age>>

\* C7: for all numeric volatility, liquidity and protocol age (negative and
\* very large values included) calculate_risk_score returns a value in the
\* closed range [0, 10].
C7_RiskScoreInRange ==
    (RiskReturned /\ \A i \in 1..3 : IsNumeric(RiskArgs[i]))
        => /\ ret.result.t = "num"
           /\ 0 <= ret.result.v
           /\ ret.result.v <= 10 * RiskScale

\* The same range for arguments inside the float range, where it holds.
RiskScoreInRangeOfFloats ==
    (RiskReturned /\ \A i \in 1..3 : RiskArgs[i].t = "num")
        => /\ ret.result.t = "num"
           /\ 0 <= ret.result.v
           /\ ret.result.v <= 10 * RiskScale

\* C8: when any of the three arguments is non-numeric (None, a text) the
\* function returns exactly 5 and does not raise.
C8_NonNumericGivesFive ==
    (RiskReturned /\ \E i \in 1..3 : ~IsNumeric(RiskArgs[i]))
        => ret.result = Num(5 * RiskScale)

\* The default of 5 when no argument is an int beyond the float range.
NonNumericGivesFiveOfFloats ==
    (/\ RiskReturned
     /\ \E i \in 1..3 : ~IsNumeric(RiskArgs[i])
     /\ \A i \in 1..3 : RiskArgs[i].t # "bigint")
        => ret.result = Num(5 * RiskScale)

(***************************************************************************)
(* helpers.cache_result and helpers.get_cached_result, on the map c at     *)
(* time t.                                                                 *)
(***************************************************************************)
\* Mutant: the timeout is left out of the expiry.
cache_result_NoTimeout(c, t, key, result, timeout) ==
    [k \in DOMAIN c \cup {key} |->
        IF k = key THEN [data |-> result, expires |-> t] ELSE c[k]]

\* Mutant: a write over an existing entry keeps the records already there and
\* adds the new ones, with the new expiry.
cache_result_Merges(c, t, key, result, timeout) ==
    [k \in DOMAIN c \cup {key} |->
        IF k = key
        THEN [data |-> IF key \in DOMAIN c THEN c[key].data \o result
                       ELSE result,
              expires |-> t + timeout]
        ELSE c[k]]

\* _cache[key] = {'data': result, 'expires': time.time() + timeout}
cache_result(c, t, key, result, timeout) ==
    [k \in DOMAIN c \cup {key} |->
        IF k = key THEN [data |-> result, expires |-> t + timeout] ELSE c[k]]

\* Mutant: an expired entry is reported absent but stays in the map.
get_cached_result_KeepsExpired(c, t, key) ==
    IF key \in DOMAIN c /\ t < c[key].expires
    THEN [found |-> TRUE, data |-> c[key].data, cache |-> c]
    ELSE [found |-> FALSE, cache |-> c]

\* Mutant: a get sweeps every expired entry out of the map, not only its own.
get_cached_result_SweepsExpired(c, t, key) ==
    LET live == {k \in DOMAIN c : t < c[k].expires}
    IN  IF key \in live
        THEN [found |-> TRUE, data |-> c[key].data,
              cache |-> [k \in live |-> c[k]]]
        ELSE [found |-> FALSE, cache |-> [k \in live |-> c[k]]]

\* The value returned and the map left behind.  found = FALSE is the None
\* returned for a missing or an expired entry; an expired entry is deleted.
get_cached_result(c, t, key) ==
    IF key \in DOMAIN c
    THEN IF t < c[key].expires
         THEN [found |-> TRUE, data |-> c[key].data, cache |-> c]
         ELSE [found |-> FALSE,
               cache |-> [k \in DOMAIN c \ {key} |-> c[k]]]
    ELSE [found |-> FALSE, cache |-> c]

\* The provider is asked only when the lookup does not satisfy the call: the
\* outcomes (and the answers) a step may draw.  Without a fetch there is
\* nothing to draw, and "ok" stands for the unused outcome.
Outcomes(fetches) == IF fetches THEN {"ok", "http_error", "transport_error"}
                     ELSE {"ok"}

\* time.time() moves on between any two steps, here by `step` seconds at a
\* time and MaxTime times at most.
Tick(step) ==
    /\ now + step <= MaxTime * step
    /\ now' = now + step
    /\ UNCHANGED <<cache, pools, call, ret, hist>>

(***************************************************************************)
(* The cache alone: puts and gets on a few keys while time passes.  hist   *)
(* remembers, per key, the last cache_result (value, time, timeout) and    *)
(* whether a get has since found the entry expired.                        *)
(***************************************************************************)
CacheKeys == {"k1", "k2"}
CacheValues == {"v1", "v2"}
Timeouts == {0, 1, 2}

NoPut == [set |-> FALSE, data |-> "", at |-> 0, timeout |-> 0,
          afterExpiry |-> FALSE]

InitCache ==
    /\ cache = << >>
    /\ now = 0
    /\ pools = << >>
    /\ call = Idle
    /\ ret = NoRet
    /\ hist = [kind |-> "cache",
               lastPut |-> [k \in CacheKeys |-> NoPut],
               expired |-> [k \in CacheKeys |-> FALSE]]

CacheResult(key, value, timeout) ==
    /\ cache' = cache_result(cache, now, key, value, timeout)
    /\ ret' = [op |-> "cache_result", key |-> key]
    /\ hist' = [hist EXCEPT
                  !.lastPut[key] = [set |-> TRUE, data |-> value, at |-> now,
                                    timeout |-> timeout,
                                    afterExpiry |-> hist.expired[key]]]
    /\ UNCHANGED <<now, pools, call>>

GetCachedResult(key) ==
    LET r == get_cached_result(cache, now, key)
    IN  /\ cache' = r.cache
        /\ ret' = [op |-> "get_cached_result", key |-> key, at |-> now,
                   found |-> r.found,
                   data |-> IF r.found THEN r.data ELSE ""]
        /\ hist' = [hist EXCEPT
                      !.expired[key] =
                          @ \/ (key \in DOMAIN cache /\ ~r.found)]
        /\ UNCHANGED <<now, pools, call>>

NextCache ==
    \/ \E key \in CacheKeys, value \in CacheValues, timeout \in Timeouts :
          CacheResult(key, value, timeout)
    \/ \E key \in CacheKeys : GetCachedResult(key)
    \/ Tick(1)

SpecCache == InitCache /\ [][NextCache]_vars

GotKey == ret.op = "get_cached_result"
LastPut == hist.lastPut[ret.key]

\* C5: cache_result(key, v, ttl) with ttl > 0 followed by
\* get_cached_result(key) before the expiry time returns v, for every key and
\* value, whatever puts and gets on other keys came in between.
C5_PutThenGetReturnsValue ==
    (/\ GotKey
     /\ LastPut.set
     /\ LastPut.timeout > 0
     /\ ret.at < LastPut.at + LastPut.timeout)
        => (ret.found /\ ret.data = LastPut.data)

C5_Witness ==
    /\ GotKey
    /\ LastPut.set
    /\ LastPut.timeout > 0
    /\ ret.at < LastPut.at + LastPut.timeout
    /\ ret.at > LastPut.at
    /\ ret.found
    /\ \E k \in CacheKeys \ {ret.key} :
          hist.lastPut[k].set /\ hist.lastPut[k].at >= LastPut.at

\* C6: once an entry's TTL has elapsed (time >= its expiry) a get of the key
\* returns absent and the entry is gone from the map afterwards; a later
\* cache_result on the key stores the new value, which the next get before
\* the new expiry returns.
C6_ExpiredEntryIsDropped ==
    /\ (GotKey /\ LastPut.set /\ ret.at >= LastPut.at + LastPut.timeout)
          => (~ret.found /\ ret.key \notin DOMAIN cache)
    /\ (/\ GotKey
        /\ LastPut.set
        /\ LastPut.afterExpiry
        /\ ret.at < LastPut.at + LastPut.timeout)
          => (ret.found /\ ret.data = LastPut.data)

C6_Witness ==
    /\ GotKey
    /\ LastPut.set
    /\ LastPut.afterExpiry
    /\ ret.at < LastPut.at + LastPut.timeout
    /\ ret.found

\* The entry of key k differs between the two maps: present in one only, or
\* present in both with another value or expiry.
EntryChanged(before, after, k) ==
    IF k \in DOMAIN before /\ k \in DOMAIN after
    THEN before[k] # after[k]
    ELSE k \in DOMAIN before \/ k \in DOMAIN after

\* C21: the only way an entry leaves the cache is a get_cached_result on that
\* same key at or after its expiry.  In every step, an entry that changes is
\* the entry of the key the operation was called with; a cache_result stores
\* it, a get_cached_result removes it and only when it had expired.  Hence
\* an entry whose key is not read again stays in the map.
C21_OnlyExpiredGetRemoves ==
    [][\A k \in CacheKeys :
          EntryChanged(cache, cache', k)
              => /\ ret'.key = k
                 /\ \/ /\ ret'.op = "cache_result"
                       /\ k \in DOMAIN cache'
                    \/ /\ ret'.op = "get_cached_result"
                       /\ k \in DOMAIN cache
                       /\ k \notin DOMAIN cache'
                       /\ now >= cache[k].expires]_vars

\* A get has just dropped its own expired entry while the expired entry of
\* the other key, not read since, is still in the map.
C21_Witness ==
    /\ GotKey
    /\ ~ret.found
    /\ hist.expired[ret.key]
    /\ ret.key \notin DOMAIN cache
    /\ LastPut.set
    /\ ret.at >= LastPut.at + LastPut.timeout
    /\ \E k \in CacheKeys \ {ret.key} :
          /\ k \in DOMAIN cache
          /\ now >= cache[k].expires
          /\ ~hist.expired[k]

(***************************************************************************)
(* helpers.format_percentage and helpers.format_currency.  A percentage is *)
(* held as the fraction num / den of a hundredth of a percent; the text    *)
(* f"{value:.2f}%" is its sign and its rounded count of hundredths, so     *)
(* "-0.00%" and "0.00%" are different texts.  float(text.replace('%', '')) *)
(* reads the text back.                                                    *)
(***************************************************************************)
Rat(num, den) == [num |-> num, den |-> den]
Abs(n) == IF n < 0 THEN -n ELSE n

\* a / d rounded to the nearest integer, a tie to the even one (a >= 0, d > 0)
RoundHalfEven(a, d) ==
    LET q == a \div d
        r == a % d
    IN  IF 2 * r < d THEN q
        ELSE IF 2 * r > d THEN q + 1
        ELSE IF q % 2 = 0 THEN q ELSE q + 1

\* value is None ("N/A") or a fraction
format_percentage(value) ==
    IF value = NoneV THEN [text |-> "N/A", neg |-> FALSE, cents |-> 0]
    ELSE [text |-> "pct", neg |-> value.num < 0,
          cents |-> RoundHalfEven(Abs(value.num), value.den)]

\* format_percentage(pool.get('apy', 0)) of an apy in thousandths
FormatApy(pool) ==
    LET apy == PoolGet(pool.apy, Num(0))
    IN  format_percentage(IF apy.t = "num" THEN Rat(apy.v, 10) ELSE NoneV)

\* float(text.replace('%', '')), in hundredths; float("N/A") is a ValueError
ParsePercentage(text) == IF text.neg THEN -text.cents ELSE text.cents
ParseRaises(text) == text.text # "pct"

\* f"${amount:,.2f}" of an amount in thousands of dollars
format_currency(amount) == [dollars |-> amount * 1000, cents |-> 0]

\* f"{risk_score:.1f}/10": tenths of a score held times RiskScale
FormatRiskScore(risk_score) == RoundHalfEven(risk_score.v, RiskScale \div 10)

(***************************************************************************)
(* The yield provider.  A pool is [project, chain, apy, tvlUsd,            *)
(* volatility]; apy and volatility are values or Missing (pool.get then    *)
(* falls back on its default).  A request ends in one of Outcomes(TRUE).   *)
(***************************************************************************)

\* Config.CACHE_TIMEOUT, in seconds
CACHE_TIMEOUT == 300

\* A chain argument: None or a text.
NoChain == [t |-> "none", s |-> ""]
Chain(s) == [t |-> "str", s |-> s]
\* f"{chain}"
ChainStr(chain) == IF chain.t = "none" THEN "None" ELSE chain.s
\* `if chain`: None and the empty text are false
ChainTruthy(chain) == chain.t = "str" /\ chain.s # ""

Indices(s) == [i \in 1..Len(s) |-> i]

\* s[:limit]
SliceTo(s, limit) ==
    IF limit >= 0 THEN SubSeq(s, 1, Min2(limit, Len(s)))
    ELSE SubSeq(s, 1, Max2(0, Len(s) + limit))

\* pool.get('apy', 0): the number sorted on
Apy(pool) == PoolGet(pool.apy, Num(0)).v

\* Comparing None with a number raises TypeError: sorted() of two or more
\* pools of which one has apy None.
SortRaises(ps, idx) ==
    /\ Len(idx) >= 2
    /\ \E i \in 1..Len(idx) : PoolGet(ps[idx[i]].apy, Num(0)).t # "num"

\* sorted(idx, key=apy, reverse=True) on indices into ps: descending, equal
\* keys keep their order.
RECURSIVE SortedByApy(_, _)
SortedByApy(ps, idx) ==
    IF idx = << >> THEN << >>
    ELSE LET rest == SortedByApy(ps, SubSeq(idx, 1, Len(idx) - 1))
             x == idx[Len(idx)]
             before == SelectSeq(rest, LAMBDA j : Apy(ps[j]) >= Apy(ps[x]))
             after == SelectSeq(rest, LAMBDA j : Apy(ps[j]) < Apy(ps[x]))
         IN  before \o <<x>> \o after

(***************************************************************************)
(* yield_service.get_top_yields                                            *)
(***************************************************************************)
KeyTopYields(limit, min_tvl, chain) ==
    "top_yields_" \o ToString(limit) \o "_" \o ToString(min_tvl) \o "_"
        \o ChainStr(chain)

\* Mutant: the chain argument is not looked at.
FilterTopYields_AnyChain(ps, min_tvl, chain) ==
    SelectSeq(Indices(ps), LAMBDA i : ~(ps[i].tvlUsd < min_tvl))

\* the filter loop of lines 36-47, as indices into ps
FilterTopYields(ps, min_tvl, chain) ==
    SelectSeq(Indices(ps),
              LAMBDA i : /\ ~(ps[i].tvlUsd < min_tvl)
                         /\ ~(ChainTruthy(chain) /\ ps[i].chain # chain.s))

TopPools(ps, limit, min_tvl, chain) ==
    SliceTo(SortedByApy(ps, FilterTopYields(ps, min_tvl, chain)), limit)

PoolRiskScore(pool) ==
    calculate_risk_score(PoolGet(pool.volatility, Num(50)),
                         Num(pool.tvlUsd), Num(365))

TopYieldRecord(pool) ==
    [name |-> "Unknown",
     protocol |-> pool.project,
     chain |-> pool.chain,
     apy |-> FormatApy(pool),
     tvl |-> format_currency(pool.tvlUsd),
     risk_score |-> FormatRiskScore(PoolRiskScore(pool)),
     url |-> pool.project]

\* Lines 35-72, run on a  200 response: the pools picked (indices into ps)
\* and their records, or raised = TRUE when an exception ends the block
\* (sorting None against a number, a risk score that raises).
TopYieldsBody(ps, limit, min_tvl, chain) ==
    LET filtered_pools == FilterTopYields(ps, min_tvl, chain)
        top_pools == TopPools(ps, limit, min_tvl, chain)
    IN  IF \/ SortRaises(ps, filtered_pools)
           \/ \E i \in 1..Len(top_pools) : IsExc(PoolRiskScore(ps[top_pools[i]]))
        THEN [raised |-> TRUE, picked |-> << >>, results |-> << >>]
        ELSE [raised |-> FALSE, picked |-> top_pools,
              results |-> [i \in 1..Len(top_pools) |->
                              TopYieldRecord(ps[top_pools[i]])]]

\* The whole call on the map c at time t: the cache lookup, then on a miss
\* (or a cached empty list, which `if cached_data` skips) the fetch, whose
\* outcome the provider decides, the computation and the cache write.  The
\* value holds the list returned, the map left behind, where the list came
\* from and the pools picked.
get_top_yields(c, t, ps, limit, min_tvl, chain, outcome) ==
    LET cache_key == KeyTopYields(limit, min_tvl, chain)
        cached == get_cached_result(c, t, cache_key)
        body == TopYieldsBody(ps, limit, min_tvl, chain)
    IN  IF cached.found /\ cached.data # << >>
        THEN [result |-> cached.data, cache |-> cached.cache,
              from |-> "cache", picked |-> << >>]
        ELSE IF outcome = "ok" /\ ~body.raised
        THEN [result |-> body.results,
              cache |-> cache_result(cached.cache, t, cache_key,
                                     body.results, CACHE_TIMEOUT),
              from |-> "fetch", picked |-> body.picked]
        ELSE [result |-> << >>, cache |-> cached.cache,
              from |-> IF outcome = "ok" THEN "exception" ELSE outcome,
              picked |-> << >>]

\* The lookup of lines 23-26 does not return: the provider is asked.
TopYieldsFetches(c, t, limit, min_tvl, chain) ==
    LET cached == get_cached_result(c, t, KeyTopYields(limit, min_tvl, chain))
    IN  ~(cached.found /\ cached.data # << >>)

GetTopYields ==
    /\ call.op = "get_top_yields"
    /\ \E outcome \in Outcomes(TopYieldsFetches(cache, now, call.limit,
                                               call.min_tvl, call.chain)) :
          LET r == get_top_yields(cache, now, pools, call.limit,
                                  call.min_tvl, call.chain, outcome)
          IN  /\ cache' = r.cache
              /\ ret' = [op |-> "get_top_yields", from |-> r.from,
                         result |-> r.result, picked |-> r.picked]
    /\ UNCHANGED <<now, pools, call, hist>>

(***************************************************************************)
(* get_top_yields on its own: Init draws the listing and the arguments,    *)
(* the call is repeated while time passes, so that it is served from the   *)
(* provider, from the cache, and again from the provider after expiry.     *)
(***************************************************************************)
RECURSIVE SeqsUpTo(_, _)
SeqsUpTo(S, n) ==
    IF n = 0 THEN {<< >>}
    ELSE LET shorter == SeqsUpTo(S, n - 1)
         IN  shorter \cup {Append(s, x) : s \in shorter, x \in S}

TopYieldPools ==
    [project : {"aave"}, chain : {"ethereum", "bsc"},
     apy : {Num(1004), Num(8500)},
     tvlUsd : {600, 5000}, volatility : {Missing}]

Limits == {-1, 0, 1, 2}
MinTvls == {600, 1000}
ChainArgs == {NoChain, Chain(""), Chain("ethereum")}

InitTopYields ==
    /\ cache = << >>
    /\ now = 0
    /\ pools \in SeqsUpTo(TopYieldPools, MaxPools)
    /\ \E limit \in Limits, min_tvl \in MinTvls, chain \in ChainArgs :
          call = [op |-> "get_top_yields", limit |-> limit,
                  min_tvl |-> min_tvl, chain |-> chain]
    /\ ret = NoRet
    /\ hist = NoHist

NextTopYields ==
    \/ GetTopYields
    \/ Tick(CACHE_TIMEOUT \div 2)

SpecTopYields == InitTopYields /\ [][NextTopYields]_vars

TopYieldsReturned == ret.op = "get_top_yields"

Qualifies(pool, min_tvl, chain) ==
    /\ pool.tvlUsd >= min_tvl
    /\ ChainTruthy(chain) => pool.chain = chain.s

\* C1: for every limit (0 and negative integers included), every min_tvl,
\* chain and listing, get_top_yields returns at most `limit` records (none
\* when limit <= 0), freshly fetched or served from the cache.
C1_AtMostLimitRecords ==
    TopYieldsReturned => Len(ret.result) <= Max2(call.limit, 0)

\* The same bound for the limits that are not negative, where it holds.
AtMostLimitWhenNotNegative ==
    (TopYieldsReturned /\ call.limit >= 0) => Len(ret.result) <= call.limit

\* What a negative limit does: the last -limit qualifying pools are dropped.
NegativeLimitDropsTheLast ==
    (TopYieldsReturned /\ ret.from = "fetch" /\ call.limit < 0)
        => Len(ret.result) =
              Max2(0, Len(FilterTopYields(pools, call.min_tvl, call.chain))
                        + call.limit)

\* C2: every record returned after a successful fetch comes from a pool with
\* tvlUsd >= min_tvl and, when a chain is given (a non-empty text), with
\* exactly that chain; the records are in non-increasing APY order and no
\* qualifying pool left out has a strictly higher APY than a returned one.
C2_TopYieldsFilteredAndSorted ==
    (TopYieldsReturned /\ ret.from = "fetch")
        => LET picked == ret.picked
               in == {picked[i] : i \in 1..Len(picked)}
               out == {j \in 1..Len(pools) :
                          /\ j \notin in
                          /\ Qualifies(pools[j], call.min_tvl, call.chain)}
           IN  /\ Len(ret.result) = Len(picked)
               /\ Cardinality(in) = Len(picked)
               /\ in \subseteq 1..Len(pools)
               /\ \A i \in 1..Len(picked) :
                     /\ Qualifies(pools[picked[i]], call.min_tvl, call.chain)
                     /\ ret.result[i].chain = pools[picked[i]].chain
                     /\ ret.result[i].protocol = pools[picked[i]].project
                     /\ ret.result[i].apy =
                           format_percentage(Rat(Apy(pools[picked[i]]), 10))
                     /\ ret.result[i].tvl =
                           format_currency(pools[picked[i]].tvlUsd)
               /\ \A i \in 1..(Len(picked) - 1) :
                     Apy(pools[picked[i]]) >= Apy(pools[picked[i + 1]])
               /\ \A j \in out : \A i \in in :
                     Apy(pools[j]) <= Apy(pools[i])

C2_Witness ==
    /\ TopYieldsReturned
    /\ ret.from = "fetch"
    /\ ChainTruthy(call.chain)
    /\ call.limit = 1
    /\ Len(ret.result) = 1
    /\ \E j \in 1..Len(pools) :
          /\ j < ret.picked[1]
          /\ Qualifies(pools[j], call.min_tvl, call.chain)
          /\ Apy(pools[j]) < Apy(pools[ret.picked[1]])

(***************************************************************************)
(* yield_service.get_yield_by_protocol                                     *)
(***************************************************************************)
\* str.lower() on the names the model uses
Lower(name) ==
    CASE name = "Compound" -> "compound"
      [] name = "Ethereum" -> "ethereum"
      [] name = "LOW" -> "low"
      [] name = "Medium" -> "medium"
      [] OTHER -> name

KeyProtocolYields(protocol_name, limit) ==
    "protocol_yields_" \o protocol_name \o "_" \o ToString(limit)

FilterByProtocol(ps, protocol_name) ==
    SelectSeq(Indices(ps),
              LAMBDA i : Lower(ps[i].project) = Lower(protocol_name))

ProtocolYieldRecord(pool, protocol_name) ==
    [name |-> "Unknown",
     chain |-> pool.chain,
     apy |-> FormatApy(pool),
     tvl |-> format_currency(pool.tvlUsd),
     url |-> protocol_name]

\* Lines 100-118, run on a 200 response.
ProtocolYieldsBody(ps, protocol_name, limit) ==
    LET protocol_pools == FilterByProtocol(ps, protocol_name)
        top_pools == SliceTo(SortedByApy(ps, protocol_pools), limit)
    IN  IF SortRaises(ps, protocol_pools)
        THEN [raised |-> TRUE, results |-> << >>]
        ELSE [raised |-> FALSE,
              results |-> [i \in 1..Len(top_pools) |->
                              ProtocolYieldRecord(ps[top_pools[i]],
                                                  protocol_name)]]

get_yield_by_protocol(c, t, ps, protocol_name, limit, outcome) ==
    LET cache_key == KeyProtocolYields(protocol_name, limit)
        cached == get_cached_result(c, t, cache_key)
        body == ProtocolYieldsBody(ps, protocol_name, limit)
    IN  IF cached.found /\ cached.data # << >>
        THEN [result |-> cached.data, cache |-> cached.cache,
              from |-> "cache"]
        ELSE IF outcome = "ok" /\ ~body.raised
        THEN [result |-> body.results,
              cache |-> cache_result(cached.cache, t, cache_key,
                                     body.results, CACHE_TIMEOUT),
              from |-> "fetch"]
        ELSE [result |-> << >>, cache |-> cached.cache,
              from |-> IF outcome = "ok" THEN "exception" ELSE outcome]

(***************************************************************************)
(* yield_service.get_yield_comparison                                      *)
(***************************************************************************)
\* get_yield_by_protocol(protocol, limit=5)
DefaultProtocolLimit == 5

RECURSIVE SumApy(_)
SumApy(yields) ==
    IF yields = << >> THEN 0
    ELSE ParsePercentage(yields[1].apy) + SumApy(Tail(yields))

\* sum([float(p['apy'].replace('%', '')) ...]) / len(yields) if yields else 0
AvgApy(yields) ==
    IF yields = << >> THEN Rat(0, 1) ELSE Rat(SumApy(yields), Len(yields))

\* Mutant: the difference loses its sign.
RatMinus_Unsigned(a, b) ==
    Rat(Abs(a.num * b.den - b.num * a.den), a.den * b.den)

\* protocol1_avg_apy - protocol2_avg_apy
RatMinus(a, b) == Rat(a.num * b.den - b.num * a.den, a.den * b.den)
\* protocol1_avg_apy > protocol2_avg_apy
RatGreater(a, b) == a.num * b.den > b.num * a.den

\* Mutant: a tie goes to the first protocol.
Winner_TieToFirst(protocol1, avg1, protocol2, avg2) ==
    IF RatGreater(avg2, avg1) THEN protocol2 ELSE protocol1

Winner(protocol1, avg1, protocol2, avg2) ==
    IF RatGreater(avg1, avg2) THEN protocol1 ELSE protocol2

\* Lines 184-204 on the two lists: the comparison, or the error record of
\* the except branch when an apy text does not parse.
Comparison(protocol1, yields1, protocol2, yields2) ==
    IF \/ \E i \in 1..Len(yields1) : ParseRaises(yields1[i].apy)
       \/ \E j \in 1..Len(yields2) : ParseRaises(yields2[j].apy)
    THEN [protocol1 |-> protocol1, protocol2 |-> protocol2,
          error |-> "ValueError"]
    ELSE LET avg1 == AvgApy(yields1)
             avg2 == AvgApy(yields2)
         IN  [protocol1 |-> protocol1,
              protocol1_avg_apy |-> format_percentage(avg1),
              protocol1_pools |-> Len(yields1),
              protocol2 |-> protocol2,
              protocol2_avg_apy |-> format_percentage(avg2),
              protocol2_pools |-> Len(yields2),
              difference |-> format_percentage(RatMinus(avg1, avg2)),
              winner |-> Winner(protocol1, avg1, protocol2, avg2)]

\* The two lists are fetched one after the other, each through the cache.
get_yield_comparison(c, t, ps, protocol1, protocol2, outcome1, outcome2) ==
    LET first == get_yield_by_protocol(c, t, ps, protocol1,
                                       DefaultProtocolLimit, outcome1)
        second == get_yield_by_protocol(first.cache, t, ps, protocol2,
                                        DefaultProtocolLimit, outcome2)
    IN  [result |-> Comparison(protocol1, first.result,
                               protocol2, second.result),
         cache |-> second.cache,
         yields1 |-> first.result,
         yields2 |-> second.result,
         clean |-> {first.from, second.from} \subseteq {"cache", "fetch"}]

(***************************************************************************)
(* The comparison on its own: Init draws the listing and two protocol      *)
(* names, which are then compared in both orders.  hist keeps, per order,  *)
(* the last comparison none of whose fetches failed.                       *)
(***************************************************************************)
ComparePools ==
    [project : {"aave", "compound"}, chain : {"ethereum"},
     apy : {Num(1004), Num(1006), NoneV},
     tvlUsd : {5000}, volatility : {Missing}]

ProtocolArgs == {"aave", "Compound", "curve"}

NoComparison == [set |-> FALSE]

InitCompare ==
    /\ cache = << >>
    /\ now = 0
    /\ pools \in SeqsUpTo(ComparePools, MaxPools)
    /\ \E protocol1 \in ProtocolArgs, protocol2 \in ProtocolArgs :
          call = [op |-> "get_yield_comparison", protocol1 |-> protocol1,
                  protocol2 |-> protocol2]
    /\ ret = NoRet
    /\ hist = [kind |-> "compare", fwd |-> NoComparison,
               rev |-> NoComparison]

\* The lookup of lines 88-91 does not return: the provider is asked.
ProtocolYieldsFetches(c, t, protocol_name, limit) ==
    LET cached == get_cached_result(c, t,
                                    KeyProtocolYields(protocol_name, limit))
    IN  ~(cached.found /\ cached.data # << >>)

\* Whether the first (nth = 1) or, after the first ended in outcome1, the
\* second (nth = 2) list of the comparison is fetched.
ComparisonFetches(swapped, outcome1, nth) ==
    LET protocol1 == IF swapped THEN call.protocol2 ELSE call.protocol1
        protocol2 == IF swapped THEN call.protocol1 ELSE call.protocol2
        first == get_yield_by_protocol(cache, now, pools, protocol1,
                                       DefaultProtocolLimit, outcome1)
    IN  IF nth = 1
        THEN ProtocolYieldsFetches(cache, now, protocol1,
                                   DefaultProtocolLimit)
        ELSE ProtocolYieldsFetches(first.cache, now, protocol2,
                                   DefaultProtocolLimit)

GetYieldComparison(swapped) ==
    /\ call.op = "get_yield_comparison"
    /\ \E outcome1 \in Outcomes(ComparisonFetches(swapped, "ok", 1)) :
       \E outcome2 \in Outcomes(ComparisonFetches(swapped, outcome1, 2)) :
          LET protocol1 == IF swapped THEN call.protocol2 ELSE call.protocol1
              protocol2 == IF swapped THEN call.protocol1 ELSE call.protocol2
              r == get_yield_comparison(cache, now, pools, protocol1,
                                        protocol2, outcome1, outcome2)
              done == [set |-> TRUE, result |-> r.result]
          IN  /\ cache' = r.cache
              /\ ret' = [op |-> "get_yield_comparison",
                         protocol1 |-> protocol1, protocol2 |-> protocol2,
                         result |-> r.result, yields1 |-> r.yields1,
                         yields2 |-> r.yields2, clean |-> r.clean]
              /\ hist' = IF ~r.clean THEN hist
                         ELSE IF swapped THEN [hist EXCEPT !.rev = done]
                         ELSE [hist EXCEPT !.fwd = done]
    /\ UNCHANGED <<now, pools, call>>

NextCompare ==
    \/ GetYieldComparison(FALSE)
    \/ GetYieldComparison(TRUE)

SpecCompare == InitCompare /\ [][NextCompare]_vars

Compared == ret.op = "get_yield_comparison"
Reports(result, field) == field \in DOMAIN result

\* C9: for all protocols A and B and any fixed pool listing, the difference
\* reported by get_yield_comparison(A, B) is the negation of the difference
\* reported by get_yield_comparison(B, A).
C9_DifferenceAntisymmetric ==
    (/\ hist.fwd.set
     /\ hist.rev.set
     /\ Reports(hist.fwd.result, "difference")
     /\ Reports(hist.rev.result, "difference"))
        => ParsePercentage(hist.fwd.result.difference)
              = -ParsePercentage(hist.rev.result.difference)

C9_Witness ==
    /\ hist.fwd.set
    /\ hist.rev.set
    /\ Reports(hist.fwd.result, "difference")
    /\ Reports(hist.rev.result, "difference")
    /\ ParsePercentage(hist.fwd.result.difference) > 0
    /\ hist.fwd.result.protocol1_pools > 0
    /\ hist.fwd.result.protocol2_pools > 0

\* The mean of the apy texts of a list is strictly greater than that of
\* another (an empty list has mean 0).
MeanGreater(yields1, yields2) ==
    LET n1 == IF yields1 = << >> THEN 1 ELSE Len(yields1)
        n2 == IF yields2 = << >> THEN 1 ELSE Len(yields2)
    IN  SumApy(yields1) * n2 > SumApy(yields2) * n1

\* C10: get_yield_comparison(A, B) reports winner = A exactly when A's mean
\* APY is strictly greater than B's, and winner = B otherwise: when the two
\* means are equal, and when neither protocol has a pool, the winner is the
\* second operand B.
C10_WinnerIsStrictlyGreaterElseSecond ==
    (Compared /\ Reports(ret.result, "winner"))
        => /\ MeanGreater(ret.yields1, ret.yields2)
                 => ret.result.winner = ret.protocol1
           /\ ~MeanGreater(ret.yields1, ret.yields2)
                 => ret.result.winner = ret.protocol2
           /\ (ret.yields1 = << >> /\ ret.yields2 = << >>)
                 => ret.result.winner = ret.protocol2

C10_Witness ==
    /\ Compared
    /\ Reports(ret.result, "winner")
    /\ ret.protocol1 # ret.protocol2
    /\ ret.yields1 # << >>
    /\ ret.yields2 # << >>
    /\ ~MeanGreater(ret.yields1, ret.yields2)
    /\ ~MeanGreater(ret.yields2, ret.yields1)
    /\ ret.result.winner = ret.protocol2

\* An apy text of one of the two lists does not parse (line 185 or 186
\* raises inside the try block).
ComparisonRaises ==
    \/ \E i \in 1..Len(ret.yields1) : ParseRaises(ret.yields1[i].apy)
    \/ \E j \in 1..Len(ret.yields2) : ParseRaises(ret.yields2[j].apy)

\* C13: whenever the upstream fetch for one of its protocols fails, or an
\* internal error occurs while it computes the comparison,
\* get_yield_comparison returns the absent sentinel None and no comparison
\* record.
C13_FailureGivesAbsentComparison ==
    (Compared /\ (~ret.clean \/ ComparisonRaises)) => ret.result = NoneV

\* What it returns instead: after a failed fetch a full comparison record
\* computed on the empty list, after an internal error the error record.
FailureGivesARecord ==
    /\ (Compared /\ ComparisonRaises) => Reports(ret.result, "error")
    /\ (Compared /\ ~ComparisonRaises) => Reports(ret.result, "winner")

(***************************************************************************)
(* The price provider's answer for one token: the 24 h, 7 d and 30 d       *)
(* changes in thousandths of a percent and whether the community is large  *)
(* (reddit_subscribers > 100000 or twitter_followers > 500000).            *)
(***************************************************************************)
Absent == [present |-> FALSE]
Present(data) == [present |-> TRUE, data |-> data]

KeyTokenSentiment(token_id) == "token_sentiment_" \o token_id

\* 30 minutes
TOKEN_SENTIMENT_TTL == 1800

\* line 160
LargeCommunity(reddit_subscribers, twitter_followers) ==
    reddit_subscribers > 100000 \/ twitter_followers > 500000

\* sentiment_score of lines 143-161, times 10000
SentimentScore(snapshot) ==
    5 * snapshot.change_24h + 3 * snapshot.change_7d
        + 2 * snapshot.change_30d
        + (IF snapshot.large_community THEN 10000 ELSE 0)

\* Mutant: a score on a threshold takes the stronger label.
SentimentLabel_Inclusive(sentiment_score) ==
    IF sentiment_score >= 100000 THEN "very bullish"
    ELSE IF sentiment_score >= 50000 THEN "bullish"
    ELSE IF sentiment_score <= -100000 THEN "very bearish"
    ELSE IF sentiment_score <= -50000 THEN "bearish"
    ELSE "neutral"

\* lines 164-172
SentimentLabel(sentiment_score) ==
    IF sentiment_score > 100000 THEN "very bullish"
    ELSE IF sentiment_score > 50000 THEN "bullish"
    ELSE IF sentiment_score < -100000 THEN "very bearish"
    ELSE IF sentiment_score < -50000 THEN "bearish"
    ELSE "neutral"

\* lines 174-184
TokenSentimentRecord(snapshot) ==
    [name |-> snapshot.name,
     symbol |-> "BTC",
     sentiment |-> SentimentLabel(SentimentScore(snapshot)),
     price |-> format_currency(snapshot.price),
     change_24h |-> format_percentage(Rat(snapshot.change_24h, 10)),
     change_7d |-> format_percentage(Rat(snapshot.change_7d, 10)),
     change_30d |-> format_percentage(Rat(snapshot.change_30d, 10))]

(***************************************************************************)
(* trading_service.get_token_sentiment on the map c at time t; the         *)
(* provider decides the outcome of the fetch and the snapshot it serves.   *)
(***************************************************************************)
get_token_sentiment(c, t, token_id, outcome, snapshot) ==
    LET cache_key == KeyTokenSentiment(token_id)
        cached == get_cached_result(c, t, cache_key)
    IN  IF cached.found
        THEN [result |-> Present(cached.data), cache |-> cached.cache,
              from |-> "cache"]
        ELSE IF outcome = "ok"
        THEN LET result == TokenSentimentRecord(snapshot)
             IN  [result |-> Present(result),
                  cache |-> cache_result(cached.cache, t, cache_key, result,
                                         TOKEN_SENTIMENT_TTL),
                  from |-> "fetch"]
        ELSE [result |-> Absent, cache |-> cached.cache, from |-> outcome]

(***************************************************************************)
(* trading_service.get_trading_signals                                     *)
(***************************************************************************)
Signal(type, signal) == [type |-> type, signal |-> signal]

\* lines 214-237, on the 24 h change in hundredths
ShortTermSignals(change_24h) ==
    IF change_24h > 500 THEN <<Signal("short_term", "strong_buy")>>
    ELSE IF change_24h > 200 THEN <<Signal("short_term", "buy")>>
    ELSE IF change_24h < -500 THEN <<Signal("short_term", "strong_sell")>>
    ELSE IF change_24h < -200 THEN <<Signal("short_term", "sell")>>
    ELSE << >>

\* Mutant: the medium-term rule gives way to a short-term signal.
MediumTermSignals_UnlessShortTerm(change_7d, change_24h) ==
    IF ShortTermSignals(change_24h) # << >> THEN << >>
    ELSE IF change_7d > 0 /\ change_24h < 0
    THEN <<Signal("medium_term", "buy_dip")>>
    ELSE IF change_7d < 0 /\ change_24h > 0
    THEN <<Signal("medium_term", "sell_rally")>>
    ELSE << >>

\* Mutant: the medium-term rule looks at the 7-day trend alone.
MediumTermSignals_TrendOnly(change_7d, change_24h) ==
    IF change_7d > 0 THEN <<Signal("medium_term", "buy_dip")>>
    ELSE IF change_7d < 0 THEN <<Signal("medium_term", "sell_rally")>>
    ELSE << >>

\* lines 240-251
MediumTermSignals(change_7d, change_24h) ==
    IF change_7d > 0 /\ change_24h < 0
    THEN <<Signal("medium_term", "buy_dip")>>
    ELSE IF change_7d < 0 /\ change_24h > 0
    THEN <<Signal("medium_term", "sell_rally")>>
    ELSE << >>

\* lines 254-265
LongTermSignals(change_30d) ==
    IF change_30d > 2000 THEN <<Signal("long_term", "take_profit")>>
    ELSE IF change_30d < -2000 THEN <<Signal("long_term", "accumulate")>>
    ELSE << >>

\* Mutant: no neutral signal is made up.
OrNeutral_Never(signals) == signals

\* lines 268-273
OrNeutral(signals) ==
    IF signals = << >> THEN <<Signal("general", "neutral")>> ELSE signals

\* lines 204-280 on the sentiment record: the three changes are read back
\* from their texts
TradingSignalsRecord(token_data) ==
    LET change_24h == ParsePercentage(token_data.change_24h)
        change_7d == ParsePercentage(token_data.change_7d)
        change_30d == ParsePercentage(token_data.change_30d)
    IN  [name |-> token_data.name,
         symbol |-> token_data.symbol,
         price |-> token_data.price,
         signals |-> OrNeutral(ShortTermSignals(change_24h)
                        \o MediumTermSignals(change_7d, change_24h)
                        \o LongTermSignals(change_30d))]

\* Mutant: without a sentiment record a record of neutral signals is made up.
get_trading_signals_Partial(c, t, token_id, outcome, snapshot) ==
    LET token_data == get_token_sentiment(c, t, token_id, outcome, snapshot)
    IN  IF ~token_data.result.present
        THEN [result |-> Present([signals |->
                                     <<Signal("general", "neutral")>>]),
              cache |-> token_data.cache, from |-> token_data.from]
        ELSE [result |-> Present(TradingSignalsRecord(token_data.result.data)),
              cache |-> token_data.cache, from |-> token_data.from,
              token_data |-> token_data.result.data]

get_trading_signals(c, t, token_id, outcome, snapshot) ==
    LET token_data == get_token_sentiment(c, t, token_id, outcome, snapshot)
    IN  IF ~token_data.result.present
        THEN [result |-> Absent, cache |-> token_data.cache,
              from |-> token_data.from]
        ELSE [result |-> Present(TradingSignalsRecord(token_data.result.data)),
              cache |-> token_data.cache, from |-> token_data.from,
              token_data |-> token_data.result.data]

(***************************************************************************)
(* trading_service.get_yield_entry_recommendation, lines 294-335 on the    *)
(* sentiment record and the signals record it has obtained.                *)
(***************************************************************************)
SignalTypes(signals) == {signals[i].signal : i \in 1..Len(signals)}

\* Mutant: a buy signal enters without raising the confidence.
BuyStep_KeepsConfidence(rec, signal_types) ==
    IF signal_types \cap {"strong_buy", "buy", "buy_dip"} # {}
    THEN [rec EXCEPT !.enter_now = TRUE,
                     !.reasoning = Append(@, "positive signals")]
    ELSE rec

\* lines 310-313
BuyStep(rec, signal_types) ==
    IF signal_types \cap {"strong_buy", "buy", "buy_dip"} # {}
    THEN [rec EXCEPT !.enter_now = TRUE, !.confidence = "medium",
                     !.reasoning = Append(@, "positive signals")]
    ELSE rec

\* lines 316-319
AccumulateStep(rec, signal_types) ==
    IF "accumulate" \in signal_types
    THEN [rec EXCEPT !.enter_now = TRUE, !.confidence = "high",
                     !.reasoning = Append(@, "accumulation zone")]
    ELSE rec

\* lines 322-329
SentimentStep(rec, sentiment) ==
    IF sentiment \in {"bullish", "very bullish"}
    THEN [rec EXCEPT !.confidence = IF rec.enter_now THEN "high" ELSE @,
                     !.reasoning = Append(@, "sentiment is " \o sentiment)]
    ELSE IF sentiment \in {"bearish", "very bearish"}
    THEN [rec EXCEPT !.enter_now = FALSE, !.confidence = "high",
                     !.reasoning = Append(@, "sentiment is " \o sentiment
                                             \o ", consider waiting")]
    ELSE rec

\* Mutant: the default line is added to every reasoning list.
DefaultReasoning_Always(rec) ==
    [rec EXCEPT !.reasoning = Append(@, "no strong signals")]

\* lines 332-333
DefaultReasoning(rec) ==
    IF rec.reasoning = << >>
    THEN [rec EXCEPT !.reasoning = <<"no strong signals">>]
    ELSE rec

\* Mutant: the sentiment is looked at before the signals, which then win.
Recommendation_SentimentFirst(token_data, trading_signals) ==
    LET signal_types == SignalTypes(trading_signals.signals)
        recommendation == [name |-> token_data.name,
                           symbol |-> token_data.symbol,
                           price |-> token_data.price,
                           enter_now |-> FALSE,
                           confidence |-> "low",
                           reasoning |-> << >>]
    IN  DefaultReasoning(
            AccumulateStep(
                BuyStep(SentimentStep(recommendation, token_data.sentiment),
                        signal_types),
                signal_types))

Recommendation(token_data, trading_signals) ==
    LET signal_types == SignalTypes(trading_signals.signals)
        recommendation == [name |-> token_data.name,
                           symbol |-> token_data.symbol,
                           price |-> token_data.price,
                           enter_now |-> FALSE,
                           confidence |-> "low",
                           reasoning |-> << >>]
    IN  DefaultReasoning(
            SentimentStep(
                AccumulateStep(BuyStep(recommendation, signal_types),
                               signal_types),
                token_data.sentiment))

(***************************************************************************)
(* The trading pipeline: requests for one token while time passes and the  *)
(* provider's snapshot changes from fetch to fetch.                        *)
(* get_yield_entry_recommendation awaits get_token_sentiment and then      *)
(* get_trading_signals; time passes and other requests are served between  *)
(* the two, so it is two steps: EntryBegin keeps the sentiment record in   *)
(* call.token_data and EntryFinish does the rest.                          *)
(***************************************************************************)
Snapshots ==
    [name : {"Bitcoin"}, price : {50},
     change_24h : {-6000, 0, 3000, 6000},
     change_7d : {-1000, 1000},
     change_30d : {-50000, 0, 50000},
     large_community : BOOLEAN]

TokenIds == {"bitcoin"}

\* The lookup of lines 124-127 does not return: the provider is asked.
TokenSentimentFetches(c, t, token_id) ==
    ~get_cached_result(c, t, KeyTokenSentiment(token_id)).found

\* The snapshots a step may draw: any when the provider answers, and one
\* that stands for the unused answer otherwise.
Answers(fetches, outcome) ==
    IF fetches /\ outcome = "ok" THEN Snapshots
    ELSE {CHOOSE snapshot \in Snapshots : TRUE}

InitTrading ==
    /\ cache = << >>
    /\ now = 0
    /\ pools = << >>
    /\ \E token_id \in TokenIds :
          call = [op |-> "trading", token_id |-> token_id, pc |-> "idle",
                  token_data |-> Absent]
    /\ ret = NoRet
    /\ hist = NoHist

GetTokenSentiment ==
    /\ call.op = "trading"
    /\ \E outcome \in Outcomes(TokenSentimentFetches(cache, now,
                                                    call.token_id)) :
       \E snapshot \in Answers(TokenSentimentFetches(cache, now,
                                                     call.token_id),
                               outcome) :
          LET r == get_token_sentiment(cache, now, call.token_id, outcome,
                                       snapshot)
          IN  /\ cache' = r.cache
              /\ ret' = [op |-> "get_token_sentiment", result |-> r.result,
                         from |-> r.from]
    /\ UNCHANGED <<now, pools, call, hist>>

GetTradingSignals ==
    /\ call.op = "trading"
    /\ \E outcome \in Outcomes(TokenSentimentFetches(cache, now,
                                                    call.token_id)) :
       \E snapshot \in Answers(TokenSentimentFetches(cache, now,
                                                     call.token_id),
                               outcome) :
          LET r == get_trading_signals(cache, now, call.token_id, outcome,
                                       snapshot)
          IN  /\ cache' = r.cache
              /\ ret' = [op |-> "get_trading_signals", result |-> r.result,
                         from |-> r.from,
                         token_data |-> IF r.result.present
                                        THEN Present(r.token_data)
                                        ELSE Absent]
    /\ UNCHANGED <<now, pools, call, hist>>

\* line 288
EntryBegin ==
    /\ call.op = "trading"
    /\ call.pc = "idle"
    /\ \E outcome \in Outcomes(TokenSentimentFetches(cache, now,
                                                    call.token_id)) :
       \E snapshot \in Answers(TokenSentimentFetches(cache, now,
                                                     call.token_id),
                               outcome) :
          LET r == get_token_sentiment(cache, now, call.token_id, outcome,
                                       snapshot)
          IN  /\ cache' = r.cache
              /\ call' = [call EXCEPT !.pc = "signals",
                                      !.token_data = r.result]
    /\ UNCHANGED <<now, pools, ret, hist>>

\* lines 289-338
EntryFinish ==
    /\ call.op = "trading"
    /\ call.pc = "signals"
    /\ \E outcome \in Outcomes(TokenSentimentFetches(cache, now,
                                                    call.token_id)) :
       \E snapshot \in Answers(TokenSentimentFetches(cache, now,
                                                     call.token_id),
                               outcome) :
          LET token_data == call.token_data
              r == get_trading_signals(cache, now, call.token_id, outcome,
                                       snapshot)
              trading_signals == r.result
              returned == token_data.present /\ trading_signals.present
          IN  /\ cache' = r.cache
              /\ ret' = [op |-> "get_yield_entry_recommendation",
                         result |->
                            IF returned
                            THEN Present(Recommendation(token_data.data,
                                                        trading_signals.data))
                            ELSE Absent,
                         sentiment |-> IF returned
                                       THEN token_data.data.sentiment
                                       ELSE "",
                         signal_types |->
                            IF returned
                            THEN SignalTypes(trading_signals.data.signals)
                            ELSE {}]
    /\ call' = [call EXCEPT !.pc = "idle", !.token_data = Absent]
    /\ UNCHANGED <<now, pools, hist>>

NextTrading ==
    \/ GetTokenSentiment
    \/ GetTradingSignals
    \/ EntryBegin
    \/ EntryFinish
    \/ Tick(TOKEN_SENTIMENT_TTL \div 2)

SpecTrading == InitTrading /\ [][NextTrading]_vars

Recommended ==
    ret.op = "get_yield_entry_recommendation" /\ ret.result.present

\* C3: whenever get_yield_entry_recommendation returns a recommendation and
\* the token's sentiment label is bearish or very bearish, the recommendation
\* has enter_now = false and confidence = high, whatever signals are present
\* (buy, strong_buy, buy_dip and accumulate included).
C3_BearishNeverEnters ==
    (Recommended /\ ret.sentiment \in {"bearish", "very bearish"})
        => /\ ret.result.data.enter_now = FALSE
           /\ ret.result.data.confidence = "high"

C3_Witness ==
    /\ Recommended
    /\ ret.sentiment = "bearish"
    /\ {"strong_buy", "accumulate"} \subseteq ret.signal_types
    /\ ret.result.data.enter_now = FALSE

SignalsReturned == ret.op = "get_trading_signals" /\ ret.result.present

\* A short-term, a medium-term or a long-term rule fires on the three changes
\* (in hundredths) of the sentiment record.
RuleFires(token_data) ==
    LET change_24h == ParsePercentage(token_data.change_24h)
        change_7d == ParsePercentage(token_data.change_7d)
        change_30d == ParsePercentage(token_data.change_30d)
    IN  \/ change_24h > 200
        \/ change_24h < -200
        \/ change_7d > 0 /\ change_24h < 0
        \/ change_7d < 0 /\ change_24h > 0
        \/ change_30d > 2000
        \/ change_30d < -2000

\* C4: whenever get_trading_signals returns a record its signals list is not
\* empty; it contains the neutral signal if and only if no short-term,
\* medium-term or long-term rule fired, and then the list is exactly that one
\* neutral signal.
C4_SignalsNeverEmpty ==
    SignalsReturned
        => LET signals == ret.result.data.signals
               fired == RuleFires(ret.token_data.data)
           IN  /\ signals # << >>
               /\ ("neutral" \in SignalTypes(signals)) <=> ~fired
               /\ ~fired => signals = <<Signal("general", "neutral")>>

C4_Witness ==
    /\ SignalsReturned
    /\ ~RuleFires(ret.token_data.data)
    /\ ret.result.data.signals = <<Signal("general", "neutral")>>

(***************************************************************************)
(* yield_service.get_yield_by_chain                                        *)
(***************************************************************************)
KeyChainYields(chain_name, limit) ==
    "chain_yields_" \o chain_name \o "_" \o ToString(limit)

FilterByChain(ps, chain_name) ==
    SelectSeq(Indices(ps),
              LAMBDA i : Lower(ps[i].chain) = Lower(chain_name))

ChainYieldRecord(pool, chain_name) ==
    [name |-> "Unknown",
     protocol |-> pool.project,
     apy |-> FormatApy(pool),
     tvl |-> format_currency(pool.tvlUsd),
     url |-> chain_name]

\* Lines 146-164, run on a 200 response.
ChainYieldsBody(ps, chain_name, limit) ==
    LET chain_pools == FilterByChain(ps, chain_name)
        top_pools == SliceTo(SortedByApy(ps, chain_pools), limit)
    IN  IF SortRaises(ps, chain_pools)
        THEN [raised |-> TRUE, results |-> << >>]
        ELSE [raised |-> FALSE,
              results |-> [i \in 1..Len(top_pools) |->
                              ChainYieldRecord(ps[top_pools[i]], chain_name)]]

\* Mutant: a failed fetch leaves an empty list in the cache.
get_yield_by_chain_CachesFailure(c, t, ps, chain_name, limit, outcome) ==
    LET cache_key == KeyChainYields(chain_name, limit)
        cached == get_cached_result(c, t, cache_key)
        body == ChainYieldsBody(ps, chain_name, limit)
    IN  IF cached.found /\ cached.data # << >>
        THEN [result |-> cached.data, cache |-> cached.cache,
              from |-> "cache"]
        ELSE IF outcome = "ok" /\ ~body.raised
        THEN [result |-> body.results,
              cache |-> cache_result(cached.cache, t, cache_key,
                                     body.results, CACHE_TIMEOUT),
              from |-> "fetch"]
        ELSE [result |-> << >>,
              cache |-> cache_result(cached.cache, t, cache_key, << >>,
                                     CACHE_TIMEOUT),
              from |-> IF outcome = "ok" THEN "exception" ELSE outcome]

get_yield_by_chain(c, t, ps, chain_name, limit, outcome) ==
    LET cache_key == KeyChainYields(chain_name, limit)
        cached == get_cached_result(c, t, cache_key)
        body == ChainYieldsBody(ps, chain_name, limit)
    IN  IF cached.found /\ cached.data # << >>
        THEN [result |-> cached.data, cache |-> cached.cache,
              from |-> "cache"]
        ELSE IF outcome = "ok" /\ ~body.raised
        THEN [result |-> body.results,
              cache |-> cache_result(cached.cache, t, cache_key,
                                     body.results, CACHE_TIMEOUT),
              from |-> "fetch"]
        ELSE [result |-> << >>, cache |-> cached.cache,
              from |-> IF outcome = "ok" THEN "exception" ELSE outcome]

(***************************************************************************)
(* An argument that is a text or None.  get_yield_by_protocol and          *)
(* get_yield_by_chain given None: the key is built with f"{None}", the     *)
(* lookup runs, and on a 200 response the filter calls None.lower() for    *)
(* the first pool of the listing, an AttributeError the except branch      *)
(* turns into the empty list; an empty listing is filtered without a call  *)
(* of lower() and its empty result is cached.                              *)
(***************************************************************************)
NoText == [t |-> "none", s |-> ""]
Text(s) == [t |-> "str", s |-> s]
\* f"{value}"
TextStr(value) == IF value.t = "none" THEN "None" ELSE value.s

ListCallOnNone(c, t, ps, cache_key, outcome) ==
    LET cached == get_cached_result(c, t, cache_key)
    IN  IF cached.found /\ cached.data # << >>
        THEN [result |-> cached.data, cache |-> cached.cache,
              from |-> "cache"]
        ELSE IF outcome = "ok" /\ ps = << >>
        THEN [result |-> << >>,
              cache |-> cache_result(cached.cache, t, cache_key, << >>,
                                     CACHE_TIMEOUT),
              from |-> "fetch"]
        ELSE [result |-> << >>, cache |-> cached.cache,
              from |-> IF outcome = "ok" THEN "exception" ELSE outcome]

(***************************************************************************)
(* yield_service.get_yield_recommendations.  It reads no cache and writes  *)
(* none; its min_tvl argument is not used.                                 *)
(***************************************************************************)
\* risk_params, in thousands of dollars and hundredths
RiskParams(risk_tolerance) ==
    CASE risk_tolerance = "low" ->
            [min_tvl |-> 10000, max_volatility |-> 30]
      [] risk_tolerance = "high" ->
            [min_tvl |-> 100, max_volatility |-> 100]
      [] OTHER -> [min_tvl |-> 1000, max_volatility |-> 60]

\* pool.get('volatility', 0.5)
Volatility(pool) == PoolGet(pool.volatility, Num(50))

\* the filter loop of lines 227-247, as indices into ps
FilterByRisk(ps, params) ==
    SelectSeq(Indices(ps),
              LAMBDA i : /\ ~(ps[i].tvlUsd < params.min_tvl)
                         /\ ~(Volatility(ps[i]).v > params.max_volatility))

\* A volatility that is no number cannot be compared with max_volatility, and
\* a risk score may raise: either ends the try block.
FilterByRiskRaises(ps, params) ==
    \E i \in 1..Len(ps) :
        /\ ~(ps[i].tvlUsd < params.min_tvl)
        /\ \/ Volatility(ps[i]).t # "num"
           \/ IsExc(PoolRiskScore(ps[i]))

RecommendedYieldRecord(pool) ==
    [name |-> "Unknown",
     protocol |-> pool.project,
     chain |-> pool.chain,
     apy |-> FormatApy(pool),
     tvl |-> format_currency(pool.tvlUsd),
     risk_score |-> FormatRiskScore(PoolRiskScore(pool)),
     url |-> pool.project]

\* Lines 226-266, run on a 200 response.
RecommendationsBody(ps, params, limit) ==
    IF FilterByRiskRaises(ps, params) THEN
        [raised |-> TRUE, picked |-> << >>, results |-> << >>]
    ELSE
        LET filtered_pools == FilterByRisk(ps, params)
            top_pools == SliceTo(SortedByApy(ps, filtered_pools), limit)
        IN  IF SortRaises(ps, filtered_pools)
            THEN [raised |-> TRUE, picked |-> << >>, results |-> << >>]
            ELSE [raised |-> FALSE, picked |-> top_pools,
                  results |-> [i \in 1..Len(top_pools) |->
                                  RecommendedYieldRecord(ps[top_pools[i]])]]

\* risk_tolerance is a text or None.  None.lower() on line 216 is outside the
\* try block: the AttributeError leaves the function (from = "raised").
get_yield_recommendations(ps, risk_tolerance, limit, outcome) ==
    IF risk_tolerance.t # "str"
    THEN [result |-> << >>, from |-> "raised", picked |-> << >>]
    ELSE LET params == RiskParams(Lower(risk_tolerance.s))
             body == RecommendationsBody(ps, params, limit)
         IN  IF outcome = "ok" /\ ~body.raised
             THEN [result |-> body.results, from |-> "fetch",
                   picked |-> body.picked]
             ELSE [result |-> << >>,
                   from |-> IF outcome = "ok" THEN "exception" ELSE outcome,
                   picked |-> << >>]

(***************************************************************************)
(* The list-returning operations of the yield pipeline side by side: Init  *)
(* draws the listing and one request (operation and arguments), which is   *)
(* then made again and again while time passes and the provider answers or *)
(* fails.  ret keeps the time of the call and, in prev, the last call of   *)
(* the behaviour that ended in a successful fetch, as hist.last had it     *)
(* before the call.                                                        *)
(***************************************************************************)
YieldPools ==
    {[project |-> "aave", chain |-> "Ethereum", apy |-> Num(8500),
      tvlUsd |-> 20000, volatility |-> Num(20)],
     [project |-> "aave", chain |-> "Ethereum", apy |-> Num(1004),
      tvlUsd |-> 5000, volatility |-> Missing],
     [project |-> "compound", chain |-> "bsc", apy |-> Num(12000),
      tvlUsd |-> 600, volatility |-> Num(90)],
     [project |-> "compound", chain |-> "Ethereum", apy |-> Num(3000),
      tvlUsd |-> 1000, volatility |-> Num(60)],
     [project |-> "aave", chain |-> "bsc", apy |-> NoneV,
      tvlUsd |-> 5000, volatility |-> Missing]}

YieldCalls ==
    {[op |-> "get_top_yields", limit |-> limit, min_tvl |-> 1000,
      chain |-> chain] :
        limit \in {0, 2}, chain \in {NoChain, Chain("bsc")}}
    \cup
    {[op |-> "get_yield_by_protocol", protocol_name |-> protocol_name,
      limit |-> limit] :
        protocol_name \in {Text("Compound"), Text("curve"), NoText},
        limit \in {1, 5}}
    \cup
    {[op |-> "get_yield_by_chain", chain_name |-> chain_name,
      limit |-> limit] :
        chain_name \in {Text("ethereum"), Text("solana"), NoText},
        limit \in {1, 5}}
    \cup
    {[op |-> "get_yield_recommendations", risk_tolerance |-> risk_tolerance,
      limit |-> limit] :
        risk_tolerance \in {Text("LOW"), Text("Medium"), Text("high"),
                            Text("degen"), NoText},
        limit \in {-1, 1, 5}}

NoFetch == [set |-> FALSE]

InitYields ==
    /\ cache = << >>
    /\ now = 0
    /\ pools \in SeqsUpTo(YieldPools, MaxPools)
    /\ call \in YieldCalls
    /\ ret = NoRet
    /\ hist = [kind |-> "yields", last |-> NoFetch]

\* The lookup under cache_key does not return: the provider is asked.
ListFetches(c, t, cache_key) ==
    LET cached == get_cached_result(c, t, cache_key)
    IN  ~(cached.found /\ cached.data # << >>)

\* What a request leaves behind: the map, the value returned and the history.
Served(r) ==
    /\ ret' = [op |-> call.op, from |-> r.from, result |-> r.result,
               at |-> now, prev |-> hist.last, picked |-> r.picked]
    /\ hist' = IF r.from = "fetch"
               THEN [hist EXCEPT !.last = [set |-> TRUE, at |-> now,
                                           result |-> r.result]]
               ELSE hist
    /\ UNCHANGED <<now, pools, call>>

RequestTopYields ==
    /\ call.op = "get_top_yields"
    /\ \E outcome \in Outcomes(ListFetches(cache, now,
                          KeyTopYields(call.limit, call.min_tvl,
                                       call.chain))) :
          LET r == get_top_yields(cache, now, pools, call.limit,
                                  call.min_tvl, call.chain, outcome)
          IN  /\ cache' = r.cache
              /\ Served(r)

\* get_yield_by_protocol(protocol_name, limit) for a text or None
YieldByProtocolOf(c, t, ps, protocol_name, limit, outcome) ==
    IF protocol_name.t = "str"
    THEN get_yield_by_protocol(c, t, ps, protocol_name.s, limit, outcome)
    ELSE ListCallOnNone(c, t, ps,
                        KeyProtocolYields(TextStr(protocol_name), limit),
                        outcome)

RequestYieldByProtocol ==
    /\ call.op = "get_yield_by_protocol"
    /\ \E outcome \in Outcomes(ListFetches(cache, now,
                          KeyProtocolYields(TextStr(call.protocol_name),
                                            call.limit))) :
          LET r == YieldByProtocolOf(cache, now, pools, call.protocol_name,
                                     call.limit, outcome)
          IN  /\ cache' = r.cache
              /\ Served(r @@ [picked |-> << >>])

\* get_yield_by_chain(chain_name, limit) for a text or None
YieldByChainOf(c, t, ps, chain_name, limit, outcome) ==
    IF chain_name.t = "str"
    THEN get_yield_by_chain(c, t, ps, chain_name.s, limit, outcome)
    ELSE ListCallOnNone(c, t, ps,
                        KeyChainYields(TextStr(chain_name), limit), outcome)

RequestYieldByChain ==
    /\ call.op = "get_yield_by_chain"
    /\ \E outcome \in Outcomes(ListFetches(cache, now,
                          KeyChainYields(TextStr(call.chain_name),
                                         call.limit))) :
          LET r == YieldByChainOf(cache, now, pools, call.chain_name,
                                  call.limit, outcome)
          IN  /\ cache' = r.cache
              /\ Served(r @@ [picked |-> << >>])

RequestYieldRecommendations ==
    /\ call.op = "get_yield_recommendations"
    /\ \E outcome \in Outcomes(call.risk_tolerance.t = "str") :
          LET r == get_yield_recommendations(pools, call.risk_tolerance,
                                             call.limit, outcome)
          IN  /\ cache' = cache
              /\ Served(r)

NextYields ==
    \/ RequestTopYields
    \/ RequestYieldByProtocol
    \/ RequestYieldByChain
    \/ RequestYieldRecommendations
    \/ Tick(CACHE_TIMEOUT \div 2)

SpecYields == InitYields /\ [][NextYields]_vars

ListOperations ==
    {"get_top_yields", "get_yield_by_protocol", "get_yield_by_chain",
     "get_yield_recommendations"}
UpstreamFailures == {"http_error", "transport_error"}

\* Going from the map `before` to the map `after` at time t wrote nothing:
\* every entry of `after` is an entry of `before`, and an entry that went was
\* past its expiry (the lookup of the call drops it).
NoEntryWritten(before, after, t) ==
    /\ \A k \in DOMAIN after : k \in DOMAIN before /\ after[k] = before[k]
    /\ \A k \in DOMAIN before \ DOMAIN after : before[k].expires <= t

\* C11: when the upstream fetch of get_top_yields, get_yield_by_protocol,
\* get_yield_by_chain or get_yield_recommendations ends in a non-success
\* status or a transport error, the call returns the empty list and writes no
\* entry into the cache: the entries that were live stay as they were.
C11_FailedFetchGivesEmptyList ==
    [][(ret'.op \in ListOperations /\ ret'.from \in UpstreamFailures)
          => /\ ret'.result = << >>
             /\ NoEntryWritten(cache, cache', now)]_vars

C11_Witness ==
    /\ ret.op = "get_yield_by_chain"
    /\ ret.from \in UpstreamFailures
    /\ ret.result = << >>
    /\ ret.prev.set
    /\ ret.prev.result # << >>
    /\ cache = << >>

\* C14: for every argument value (a risk_tolerance or a protocol name that
\* is no text included) and every upstream outcome, no public operation lets
\* an exception escape to its caller.
C14_NoExceptionEscapes ==
    ret.op \in ListOperations => ret.from # "raised"

\* The same for text arguments, where it holds.
NoExceptionEscapesOnTexts ==
    (ret.op = "get_yield_recommendations" /\ call.risk_tolerance.t = "str")
        => ret.from # "raised"

CachedListOperations ==
    {"get_top_yields", "get_yield_by_protocol", "get_yield_by_chain"}

\* The call follows, before the TTL has elapsed, a call with the same
\* arguments that completed with a successful upstream fetch.
FollowsFetchWithinTTL ==
    /\ ret.op \in CachedListOperations
    /\ ret.prev.set
    /\ ret.at < ret.prev.at + CACHE_TIMEOUT

\* C16: after a call completed with a successful upstream fetch, a second
\* call with the same arguments made before the TTL elapses issues no
\* upstream request and returns the same result, whatever that result is
\* (the empty list included).
C16_SecondCallServedFromCache ==
    FollowsFetchWithinTTL
        => (ret.from = "cache" /\ ret.result = ret.prev.result)

\* The same when the first result is not the empty list, where it holds.
SecondCallServedWhenNotEmpty ==
    (FollowsFetchWithinTTL /\ ret.prev.result # << >>)
        => (ret.from = "cache" /\ ret.result = ret.prev.result)

RecommendationsReturned ==
    ret.op = "get_yield_recommendations" /\ ret.from = "fetch"

\* The thresholds the claim gives for a risk tolerance, in thousands of
\* dollars and hundredths, on the lower-cased text.
ThresholdsFor(risk_tolerance) ==
    LET lower == Lower(risk_tolerance.s)
    IN  IF lower = "low" THEN <<10000, 30>>
        ELSE IF lower = "high" THEN <<100, 100>>
        ELSE <<1000, 60>>

\* Every record comes from a pool within the thresholds of the risk
\* tolerance, and the records are in non-increasing APY order.
RecommendationsFilteredAndSorted ==
    LET picked == ret.picked
        min_tvl == ThresholdsFor(call.risk_tolerance)[1]
        max_volatility == ThresholdsFor(call.risk_tolerance)[2]
    IN  /\ Len(ret.result) = Len(picked)
        /\ \A i \in 1..Len(picked) :
              /\ picked[i] \in 1..Len(pools)
              /\ pools[picked[i]].tvlUsd >= min_tvl
              /\ Volatility(pools[picked[i]]).v <= max_volatility
              /\ ret.result[i].protocol = pools[picked[i]].project
              /\ ret.result[i].apy = FormatApy(pools[picked[i]])
        /\ \A i \in 1..(Len(picked) - 1) :
              Apy(pools[picked[i]]) >= Apy(pools[picked[i + 1]])

\* C19: get_yield_recommendations maps risk_tolerance, whatever its case, to
\* (min_tvl, max_volatility) = low: (10,000,000, 0.3), medium: (1,000,000,
\* 0.6), high: (100,000, 1.0) and any other text to the medium pair; every
\* record comes from a pool with tvlUsd >= min_tvl and volatility (0.5 when
\* missing) <= max_volatility, the records are in non-increasing APY order
\* and at most `limit` of them are returned (none when limit <= 0).
C19_RecommendationsByRiskTolerance ==
    RecommendationsReturned
        => /\ RecommendationsFilteredAndSorted
           /\ Len(ret.result) <= Max2(call.limit, 0)

\* The thresholds and the order for every limit, and the bound for the
\* limits that are not negative, where they hold.
RecommendationsWhenLimitNotNegative ==
    RecommendationsReturned
        => /\ RecommendationsFilteredAndSorted
           /\ call.limit >= 0 => Len(ret.result) <= call.limit

(***************************************************************************)
(* trading_service.get_token_price.  The provider answers with a quote     *)
(* [usd, usd_24h_change], with a 200 response that lacks the token         *)
(* ("unknown_token"), or fails.                                            *)
(***************************************************************************)
KeyTokenPrice(token_id) == "token_price_" \o token_id

\* 5 minutes
TOKEN_PRICE_TTL == 300

\* lines 35-38
TokenPriceRecord(quote) ==
    [price |-> format_currency(quote.usd),
     change_24h |-> format_percentage(Rat(quote.usd_24h_change, 10))]

get_token_price(c, t, token_id, outcome, quote) ==
    LET cache_key == KeyTokenPrice(token_id)
        cached == get_cached_result(c, t, cache_key)
    IN  IF cached.found
        THEN [result |-> Present(cached.data), cache |-> cached.cache,
              from |-> "cache"]
        ELSE IF outcome = "ok"
        THEN LET result == TokenPriceRecord(quote)
             IN  [result |-> Present(result),
                  cache |-> cache_result(cached.cache, t, cache_key, result,
                                         TOKEN_PRICE_TTL),
                  from |-> "fetch"]
        ELSE [result |-> Absent, cache |-> cached.cache, from |-> outcome]

(***************************************************************************)
(* trading_service.get_market_sentiment.  The provider answers with the    *)
(* list of the top coins, each [price_change_percentage_24h] in            *)
(* thousandths of a percent or None.                                       *)
(***************************************************************************)
KeyMarketSentiment == "market_sentiment"

\* 30 minutes
MARKET_SENTIMENT_TTL == 1800

Change24h(coin) == coin.price_change_percentage_24h

\* sum() over a list with a None in it raises TypeError
MarketRaises(data) == \E i \in 1..Len(data) : Change24h(data[i]).t # "num"

RECURSIVE TotalChange(_)
TotalChange(data) ==
    IF data = << >> THEN 0
    ELSE Change24h(data[1]).v + TotalChange(Tail(data))

\* total_change / len(data) if data else 0, as a fraction of a hundredth
AvgChange(data) ==
    IF data = << >> THEN Rat(0, 1)
    ELSE Rat(TotalChange(data), 10 * Len(data))

\* lines 76-84, on the average as a fraction of a hundredth of a percent
MarketLabel(avg_change) ==
    IF avg_change.num > 500 * avg_change.den THEN "very bullish"
    ELSE IF avg_change.num > 200 * avg_change.den THEN "bullish"
    ELSE IF avg_change.num < -500 * avg_change.den THEN "very bearish"
    ELSE IF avg_change.num < -200 * avg_change.den THEN "bearish"
    ELSE "neutral"

\* s[-n:]
SliceLast(s, n) == SubSeq(s, Max2(1, Len(s) - n + 1), Len(s))

\* sorted(data, key=change, reverse=True), as indices into data
SortedByChange(data) ==
    SortedByApy([i \in 1..Len(data) |-> [apy |-> Change24h(data[i])]],
                Indices(data))

CoinRecord(coin) ==
    [name |-> "Unknown", symbol |-> "UNKNOWN",
     change_24h |-> format_percentage(Rat(Change24h(coin).v, 10))]

\* lines 71-108
MarketSentimentRecord(data) ==
    LET avg_change == AvgChange(data)
        sorted_by_change == SortedByChange(data)
        top_gainers == SliceTo(sorted_by_change, 3)
        top_losers == SliceLast(sorted_by_change, 3)
    IN  [sentiment |-> MarketLabel(avg_change),
         avg_change_24h |-> format_percentage(avg_change),
         top_gainers |-> [i \in 1..Len(top_gainers) |->
                             CoinRecord(data[top_gainers[i]])],
         top_losers |-> [i \in 1..Len(top_losers) |->
                            CoinRecord(data[top_losers[i]])]]

get_market_sentiment(c, t, outcome, data) ==
    LET cached == get_cached_result(c, t, KeyMarketSentiment)
    IN  IF cached.found
        THEN [result |-> Present(cached.data), cache |-> cached.cache,
              from |-> "cache"]
        ELSE IF outcome = "ok" /\ ~MarketRaises(data)
        THEN LET result == MarketSentimentRecord(data)
             IN  [result |-> Present(result),
                  cache |-> cache_result(cached.cache, t, KeyMarketSentiment,
                                         result, MARKET_SENTIMENT_TTL),
                  from |-> "fetch"]
        ELSE [result |-> Absent, cache |-> cached.cache,
              from |-> IF outcome = "ok" THEN "exception" ELSE outcome]

(***************************************************************************)
(* The five operations of the trading pipeline side by side, on a provider *)
(* that answers or fails request by request.  ret.requests lists, in       *)
(* order, how the upstream requests of the invocation ended (none when the *)
(* cache served it).  get_yield_entry_recommendation is two steps, as in   *)
(* the trading pipeline above: call.requests carries the requests of its   *)
(* first step.                                                             *)
(***************************************************************************)
Quotes == {[usd |-> 50, usd_24h_change |-> 1004]}

MarketAnswers ==
    {<< >>,
     <<[price_change_percentage_24h |-> Num(6000)],
       [price_change_percentage_24h |-> Num(-1000)]>>,
     <<[price_change_percentage_24h |-> Num(3000)],
       [price_change_percentage_24h |-> NoneV]>>}

FewSnapshots ==
    {[name |-> "Bitcoin", price |-> 50, change_24h |-> 6000,
      change_7d |-> -1000, change_30d |-> -50000,
      large_community |-> FALSE],
     [name |-> "Bitcoin", price |-> 50, change_24h |-> 0,
      change_7d |-> 1000, change_30d |-> 0, large_community |-> TRUE]}

\* A 200 response may lack the token asked for.
PriceOutcomes(fetches) ==
    IF fetches THEN Outcomes(TRUE) \cup {"unknown_token"} ELSE {"ok"}

\* The answers a step may draw from the set S: any when the provider
\* answers, and one that stands for the unused answer otherwise.
AnswersFrom(S, fetches, outcome) ==
    IF fetches /\ outcome = "ok" THEN S ELSE {CHOOSE x \in S : TRUE}

\* How the upstream request of a call ended, given where its value came from.
Requests(from) ==
    IF from = "cache" THEN << >>
    ELSE IF from \in {"fetch", "exception"} THEN <<"ok">>
    ELSE <<from>>

InitTradingOps ==
    /\ cache = << >>
    /\ now = 0
    /\ pools = << >>
    /\ \E token_id \in TokenIds :
          call = [op |-> "trading_ops", token_id |-> token_id,
                  pc |-> "idle", token_data |-> Absent, requests |-> << >>]
    /\ ret = NoRet
    /\ hist = NoHist

AskTokenPrice ==
    /\ call.op = "trading_ops"
    /\ LET fetches == ~get_cached_result(cache, now,
                                         KeyTokenPrice(call.token_id)).found
       IN  \E outcome \in PriceOutcomes(fetches) :
           \E quote \in AnswersFrom(Quotes, fetches, outcome) :
              LET r == get_token_price(cache, now, call.token_id, outcome,
                                       quote)
              IN  /\ cache' = r.cache
                  /\ ret' = [op |-> "get_token_price", result |-> r.result,
                             requests |-> Requests(r.from)]
    /\ UNCHANGED <<now, pools, call, hist>>

AskMarketSentiment ==
    /\ call.op = "trading_ops"
    /\ LET fetches == ~get_cached_result(cache, now,
                                         KeyMarketSentiment).found
       IN  \E outcome \in Outcomes(fetches) :
           \E data \in AnswersFrom(MarketAnswers, fetches, outcome) :
              LET r == get_market_sentiment(cache, now, outcome, data)
              IN  /\ cache' = r.cache
                  /\ ret' = [op |-> "get_market_sentiment",
                             result |-> r.result,
                             requests |-> Requests(r.from)]
    /\ UNCHANGED <<now, pools, call, hist>>

AskTokenSentiment ==
    /\ call.op = "trading_ops"
    /\ LET fetches == TokenSentimentFetches(cache, now, call.token_id)
       IN  \E outcome \in Outcomes(fetches) :
           \E snapshot \in AnswersFrom(FewSnapshots, fetches, outcome) :
              LET r == get_token_sentiment(cache, now, call.token_id,
                                           outcome, snapshot)
              IN  /\ cache' = r.cache
                  /\ ret' = [op |-> "get_token_sentiment",
                             result |-> r.result,
                             requests |-> Requests(r.from)]
    /\ UNCHANGED <<now, pools, call, hist>>

AskTradingSignals ==
    /\ call.op = "trading_ops"
    /\ LET fetches == TokenSentimentFetches(cache, now, call.token_id)
       IN  \E outcome \in Outcomes(fetches) :
           \E snapshot \in AnswersFrom(FewSnapshots, fetches, outcome) :
              LET r == get_trading_signals(cache, now, call.token_id,
                                           outcome, snapshot)
              IN  /\ cache' = r.cache
                  /\ ret' = [op |-> "get_trading_signals",
                             result |-> r.result,
                             requests |-> Requests(r.from)]
    /\ UNCHANGED <<now, pools, call, hist>>

\* line 288
AskEntrySentiment ==
    /\ call.op = "trading_ops"
    /\ call.pc = "idle"
    /\ LET fetches == TokenSentimentFetches(cache, now, call.token_id)
       IN  \E outcome \in Outcomes(fetches) :
           \E snapshot \in AnswersFrom(FewSnapshots, fetches, outcome) :
              LET r == get_token_sentiment(cache, now, call.token_id,
                                           outcome, snapshot)
              IN  /\ cache' = r.cache
                  /\ call' = [call EXCEPT !.pc = "signals",
                                          !.token_data = r.result,
                                          !.requests = Requests(r.from)]
    /\ UNCHANGED <<now, pools, ret, hist>>

\* lines 289-338
AskEntrySignals ==
    /\ call.op = "trading_ops"
    /\ call.pc = "signals"
    /\ LET fetches == TokenSentimentFetches(cache, now, call.token_id)
       IN  \E outcome \in Outcomes(fetches) :
           \E snapshot \in AnswersFrom(FewSnapshots, fetches, outcome) :
              LET token_data == call.token_data
                  r == get_trading_signals(cache, now, call.token_id,
                                           outcome, snapshot)
                  trading_signals == r.result
              IN  /\ cache' = r.cache
                  /\ ret' = [op |-> "get_yield_entry_recommendation",
                             result |->
                                IF token_data.present
                                   /\ trading_signals.present
                                THEN Present(Recommendation(
                                         token_data.data,
                                         trading_signals.data))
                                ELSE Absent,
                             requests |->
                                call.requests \o Requests(r.from)]
    /\ call' = [call EXCEPT !.pc = "idle", !.token_data = Absent,
                            !.requests = << >>]
    /\ UNCHANGED <<now, pools, hist>>

NextTradingOps ==
    \/ AskTokenPrice
    \/ AskMarketSentiment
    \/ AskTokenSentiment
    \/ AskTradingSignals
    \/ AskEntrySentiment
    \/ AskEntrySignals
    \/ Tick(TOKEN_SENTIMENT_TTL \div 2)

SpecTradingOps == InitTradingOps /\ [][NextTradingOps]_vars

TradingOperations ==
    {"get_token_price", "get_market_sentiment", "get_token_sentiment",
     "get_trading_signals", "get_yield_entry_recommendation"}
FetchFailures == UpstreamFailures \cup {"unknown_token"}

\* An upstream request of the invocation that returned failed.
SomeRequestFailed ==
    \E i \in 1..Len(ret.requests) : ret.requests[i] \in FetchFailures

\* C12: when an upstream fetch fails (non-success status, transport error,
\* the token missing from the response) get_token_price,
\* get_market_sentiment and get_token_sentiment return absent, and so do
\* get_trading_signals and get_yield_entry_recommendation, which never
\* return a partial record.
C12_FailedFetchGivesAbsent ==
    (ret.op \in TradingOperations /\ SomeRequestFailed)
        => ret.result = Absent

C12_Witness ==
    /\ ret.op = "get_yield_entry_recommendation"
    /\ ret.requests = <<"ok", "transport_error">>
    /\ ret.result = Absent

\* C15: within one invocation, once an upstream fetch has failed no further
\* upstream request is issued: a failed request is the last request of its
\* invocation.
C15_NoRequestAfterFailure ==
    ret.op \in TradingOperations
        => \A i \in 1..(Len(ret.requests) - 1) :
              ret.requests[i] \notin FetchFailures

\* The operations that issue one request at most keep to it.
NoRequestAfterFailureOfSingleFetch ==
    (ret.op \in TradingOperations
     /\ ret.op # "get_yield_entry_recommendation")
        => Len(ret.requests) <= 1

(***************************************************************************)
(* The rules of get_yield_entry_recommendation alone: Init draws a signal  *)
(* list get_trading_signals can return and a sentiment label, the action   *)
(* applies lines 294-335 to them.                                          *)
(***************************************************************************)
SentimentLabels ==
    {"very bullish", "bullish", "neutral", "bearish", "very bearish"}

\* The lists get_trading_signals builds: at most one signal of each group,
\* in the order of the groups, or the one neutral signal.
SignalLists ==
    {OrNeutral(short \o medium \o long) :
        short \in {<< >>} \cup {<<Signal("short_term", x)>> :
                      x \in {"strong_buy", "buy", "strong_sell", "sell"}},
        medium \in {<< >>} \cup {<<Signal("medium_term", x)>> :
                       x \in {"buy_dip", "sell_rally"}},
        long \in {<< >>} \cup {<<Signal("long_term", x)>> :
                     x \in {"take_profit", "accumulate"}}}

InitEntry ==
    /\ cache = << >>
    /\ now = 0
    /\ pools = << >>
    /\ \E signals \in SignalLists, sentiment \in SentimentLabels :
          call = [op |-> "entry_rules",
                  token_data |-> [name |-> "Bitcoin", symbol |-> "BTC",
                                  price |-> format_currency(50),
                                  sentiment |-> sentiment],
                  trading_signals |-> [name |-> "Bitcoin", symbol |-> "BTC",
                                       price |-> format_currency(50),
                                       signals |-> signals]]
    /\ ret = NoRet
    /\ hist = NoHist

ApplyEntryRules ==
    /\ call.op = "entry_rules"
    /\ ret = NoRet
    /\ ret' = [op |-> "entry_rules",
               result |-> Recommendation(call.token_data,
                                         call.trading_signals)]
    /\ UNCHANGED <<cache, now, pools, call, hist>>

NextEntry == ApplyEntryRules

SpecEntry == InitEntry /\ [][NextEntry]_vars

\* C17: enter_now is true if and only if the signals contain one of
\* strong_buy, buy, buy_dip or accumulate and the sentiment is neither
\* bearish nor very bearish; confidence is high when the sentiment is
\* bearish or very bearish, or accumulate is present, or enter_now is true
\* with a bullish or very bullish sentiment; medium when a buy-type signal is
\* present without accumulate and the sentiment is neutral; low otherwise.
C17_EntryRuleTable ==
    ret.op = "entry_rules"
        => LET types == SignalTypes(call.trading_signals.signals)
               sentiment == call.token_data.sentiment
               buys == types \cap {"strong_buy", "buy", "buy_dip"} # {}
               accumulates == "accumulate" \in types
               bearish == sentiment \in {"bearish", "very bearish"}
               bullish == sentiment \in {"bullish", "very bullish"}
               enters == (buys \/ accumulates) /\ ~bearish
           IN  /\ ret.result.enter_now = enters
               /\ ret.result.confidence =
                     IF bearish \/ accumulates \/ (enters /\ bullish)
                     THEN "high"
                     ELSE IF buys /\ ~accumulates /\ sentiment = "neutral"
                     THEN "medium"
                     ELSE "low"

C17_Witness ==
    /\ ret.op = "entry_rules"
    /\ SignalTypes(call.trading_signals.signals) = {"sell", "buy_dip"}
    /\ call.token_data.sentiment = "neutral"
    /\ ret.result.enter_now
    /\ ret.result.confidence = "medium"

(***************************************************************************)
(* The rules of get_trading_signals alone: Init draws the three changes    *)
(* the provider reports, the sentiment record carries them as texts and    *)
(* the action applies lines 204-280 to the record.                         *)
(***************************************************************************)
SignalSnapshots ==
    [name : {"Bitcoin"}, price : {50},
     change_24h : {-6000, -5000, -3000, -2000, -1, 0, 2000, 3000, 5000,
                   5004, 6000},
     change_7d : {-3000, 0, 3000},
     change_30d : {-25000, -20000, 0, 20000, 25000},
     large_community : {FALSE}]

InitSignals ==
    /\ cache = << >>
    /\ now = 0
    /\ pools = << >>
    /\ \E snapshot \in SignalSnapshots :
          call = [op |-> "signal_rules", snapshot |-> snapshot,
                  token_data |-> TokenSentimentRecord(snapshot)]
    /\ ret = NoRet
    /\ hist = NoHist

ApplySignalRules ==
    /\ call.op = "signal_rules"
    /\ ret = NoRet
    /\ ret' = [op |-> "signal_rules",
               result |-> TradingSignalsRecord(call.token_data)]
    /\ UNCHANGED <<cache, now, pools, call, hist>>

NextSignals == ApplySignalRules

SpecSignals == InitSignals /\ [][NextSignals]_vars

\* The changes get_trading_signals evaluates, in hundredths of a percent.
Evaluated24h == ParsePercentage(call.token_data.change_24h)
Evaluated7d == ParsePercentage(call.token_data.change_7d)
Evaluated30d == ParsePercentage(call.token_data.change_30d)

\* C18: on the 24h, 7d and 30d changes it evaluates, get_trading_signals
\* emits in this order the short-term signal (strong_buy if 24h > 5, else buy
\* if 24h > 2, else strong_sell if 24h < -5, else sell if 24h < -2, else
\* none), the medium-term signal (buy_dip if 7d > 0 and 24h < 0, sell_rally
\* if 7d < 0 and 24h > 0, else none) and the long-term signal (take_profit if
\* 30d > 20, accumulate if 30d < -20, else none); each group fires whatever
\* the other two do, so (-6, 3, 25) gives strong_sell, buy_dip, take_profit.
C18_SignalsInOrder ==
    ret.op = "signal_rules"
        => LET short == IF Evaluated24h > 500 THEN "strong_buy"
                        ELSE IF Evaluated24h > 200 THEN "buy"
                        ELSE IF Evaluated24h < -500 THEN "strong_sell"
                        ELSE IF Evaluated24h < -200 THEN "sell"
                        ELSE "none"
               medium == IF Evaluated7d > 0 /\ Evaluated24h < 0
                         THEN "buy_dip"
                         ELSE IF Evaluated7d < 0 /\ Evaluated24h > 0
                         THEN "sell_rally"
                         ELSE "none"
               long == IF Evaluated30d > 2000 THEN "take_profit"
                       ELSE IF Evaluated30d < -2000 THEN "accumulate"
                       ELSE "none"
               groups == <<[type |-> "short_term", signal |-> short],
                           [type |-> "medium_term", signal |-> medium],
                           [type |-> "long_term", signal |-> long]>>
               fired == SelectSeq(groups, LAMBDA g : g.signal # "none")
           IN  /\ fired # << >> => ret.result.signals = fired
               /\ (Evaluated24h = -600 /\ Evaluated7d = 300
                   /\ Evaluated30d = 2500)
                     => ret.result.signals =
                           <<Signal("short_term", "strong_sell"),
                             Signal("medium_term", "buy_dip"),
                             Signal("long_term", "take_profit")>>

C18_Witness ==
    /\ ret.op = "signal_rules"
    /\ Evaluated24h = -600
    /\ Evaluated7d = 300
    /\ Evaluated30d = 2500
    /\ Len(ret.result.signals) = 3

(***************************************************************************)
(* The score and the label of get_token_sentiment alone: Init draws the    *)
(* three changes and the two community counts, the action applies lines    *)
(* 142-172 to them.                                                        *)
(***************************************************************************)
SentimentChanges24h ==
    {-22000, -20000, -18000, -12000, -10000, -8000, 0, 8000, 10000, 12000,
     18000, 20000, 22000}
SentimentChanges7d == {-10000, 0, 10000}
SentimentChanges30d == {-25000, 0, 25000}
RedditSubscribers == {100000, 100001}
TwitterFollowers == {500000, 500001}

InitSentiment ==
    /\ cache = << >>
    /\ now = 0
    /\ pools = << >>
    /\ \E change_24h \in SentimentChanges24h,
          change_7d \in SentimentChanges7d,
          change_30d \in SentimentChanges30d,
          reddit_subscribers \in RedditSubscribers,
          twitter_followers \in TwitterFollowers :
          call = [op |-> "sentiment_rules",
                  change_24h |-> change_24h, change_7d |-> change_7d,
                  change_30d |-> change_30d,
                  reddit_subscribers |-> reddit_subscribers,
                  twitter_followers |-> twitter_followers]
    /\ ret = NoRet
    /\ hist = NoHist

ApplySentimentRules ==
    /\ call.op = "sentiment_rules"
    /\ ret = NoRet
    /\ LET snapshot ==
              [name |-> "Bitcoin", price |-> 50,
               change_24h |-> call.change_24h,
               change_7d |-> call.change_7d,
               change_30d |-> call.change_30d,
               large_community |->
                  LargeCommunity(call.reddit_subscribers,
                                 call.twitter_followers)]
       IN  ret' = [op |-> "sentiment_rules",
                   sentiment_score |-> SentimentScore(snapshot),
                   result |-> TokenSentimentRecord(snapshot)]
    /\ UNCHANGED <<cache, now, pools, call, hist>>

NextSentiment == ApplySentimentRules

SpecSentiment == InitSentiment /\ [][NextSentiment]_vars

\* C20: score = 0.5 * change_24h + 0.3 * change_7d + 0.2 * change_30d, plus
\* 1 when reddit subscribers > 100,000 or twitter followers > 500,000; the
\* label is very bullish if score > 10, else bullish if score > 5, else very
\* bearish if score < -10, else bearish if score < -5, else neutral, so that
\* a score exactly on a threshold takes the milder label.  Scores are held
\* times 10000.
C20_SentimentScoreAndLabel ==
    ret.op = "sentiment_rules"
        => LET bonus == IF \/ call.reddit_subscribers > 100000
                           \/ call.twitter_followers > 500000
                        THEN 10000 ELSE 0
               score == 5 * call.change_24h + 3 * call.change_7d
                        + 2 * call.change_30d + bonus
           IN  /\ ret.sentiment_score = score
               /\ ret.result.sentiment =
                     IF score > 100000 THEN "very bullish"
                     ELSE IF score > 50000 THEN "bullish"
                     ELSE IF score < -100000 THEN "very bearish"
                     ELSE IF score < -50000 THEN "bearish"
                     ELSE "neutral"
               /\ score = 100000 => ret.result.sentiment = "bullish"
               /\ score = 50000 => ret.result.sentiment = "neutral"
               /\ score = -50000 => ret.result.sentiment = "neutral"
               /\ score = -100000 => ret.result.sentiment = "bearish"

C20_Witness ==
    /\ ret.op = "sentiment_rules"
    /\ ret.sentiment_score = 100000
    /\ call.reddit_subscribers > 100000
    /\ call.change_7d # 0
    /\ ret.result.sentiment = "bullish"

\* C24: the reasoning list of every recommendation is non-empty; it holds
\* the default 'no strong signals' line if and only if no buy-type signal,
\* no accumulate signal and no bullish or bearish sentiment line was added;
\* otherwise its lines are, in this order, the buy-signal line, the
\* accumulate line and the sentiment line, each present when its rule fired.
C24_ReasoningLines ==
    ret.op = "entry_rules"
        => LET types == SignalTypes(call.trading_signals.signals)
               sentiment == call.token_data.sentiment
               reasoning == ret.result.reasoning
               buy_line ==
                   IF types \cap {"strong_buy", "buy", "buy_dip"} # {}
                   THEN <<"positive signals">> ELSE << >>
               accumulate_line ==
                   IF "accumulate" \in types
                   THEN <<"accumulation zone">> ELSE << >>
               sentiment_line ==
                   IF sentiment \in {"bullish", "very bullish"}
                   THEN <<"sentiment is " \o sentiment>>
                   ELSE IF sentiment \in {"bearish", "very bearish"}
                   THEN <<"sentiment is " \o sentiment
                              \o ", consider waiting">>
                   ELSE << >>
               lines == buy_line \o accumulate_line \o sentiment_line
           IN  /\ Len(reasoning) >= 1
               /\ (\E i \in 1..Len(reasoning) :
                      reasoning[i] = "no strong signals") <=> lines = << >>
               /\ lines # << >> => reasoning = lines

\* All three rules fired: a buy-type signal, accumulate and a bearish
\* sentiment give three lines.
C24_Witness ==
    /\ ret.op = "entry_rules"
    /\ Len(ret.result.reasoning) = 3
    /\ "buy_dip" \in SignalTypes(call.trading_signals.signals)
    /\ call.token_data.sentiment = "bearish"

\* The recommendation lines 294-335 give when the sentiment record and the
\* signals both come from the one snapshot.
RecommendationOf(snapshot) ==
    Recommendation(TokenSentimentRecord(snapshot),
                   TradingSignalsRecord(TokenSentimentRecord(snapshot)))

\* C25: in every get_yield_entry_recommendation call that returns a
\* recommendation, the sentiment label, name and price of the first
\* get_token_sentiment and the signals of get_trading_signals derive from
\* the same upstream snapshot, whenever the cache entry expires and whatever
\* other requests for the token come in between.
C25_EntryFromOneSnapshot ==
    (ret.op = "get_yield_entry_recommendation" /\ ret.result.present)
        => \E snapshot \in FewSnapshots :
              ret.result.data = RecommendationOf(snapshot)

\* The signals the rules of lines 214-273 give on raw changes, held in
\* thousandths of a percent.
SignalsOfRaw(change_24h, change_7d, change_30d) ==
    LET short == IF change_24h > 5000 THEN "strong_buy"
                 ELSE IF change_24h > 2000 THEN "buy"
                 ELSE IF change_24h < -5000 THEN "strong_sell"
                 ELSE IF change_24h < -2000 THEN "sell"
                 ELSE "none"
        medium == IF change_7d > 0 /\ change_24h < 0 THEN "buy_dip"
                  ELSE IF change_7d < 0 /\ change_24h > 0 THEN "sell_rally"
                  ELSE "none"
        long == IF change_30d > 20000 THEN "take_profit"
                ELSE IF change_30d < -20000 THEN "accumulate"
                ELSE "none"
        groups == <<Signal("short_term", short),
                    Signal("medium_term", medium),
                    Signal("long_term", long)>>
        fired == SelectSeq(groups, LAMBDA g : g.signal # "none")
    IN  IF fired = << >> THEN <<Signal("general", "neutral")>> ELSE fired

\* C29: the signals get_trading_signals derives from the percentage texts it
\* parses back (values rounded to two decimals) are the signals its rules
\* give on the raw 24h, 7d and 30d changes of the price provider, for every
\* raw value, those that round onto a threshold (5.004) or onto zero
\* (-0.001) included.
C29_SignalsOfTextsAreSignalsOfRaw ==
    ret.op = "signal_rules"
        => ret.result.signals =
              SignalsOfRaw(call.snapshot.change_24h, call.snapshot.change_7d,
                           call.snapshot.change_30d)

\* The two agree on raw changes that have no more than two decimals.
SignalsAgreeOnTwoDecimals ==
    (/\ ret.op = "signal_rules"
     /\ call.snapshot.change_24h % 10 = 0
     /\ call.snapshot.change_7d % 10 = 0
     /\ call.snapshot.change_30d % 10 = 0)
        => ret.result.signals =
              SignalsOfRaw(call.snapshot.change_24h, call.snapshot.change_7d,
                           call.snapshot.change_30d)

\* The number of signals of a list that have the given type.
CountOfType(signals, type) ==
    Cardinality({i \in 1..Len(signals) : signals[i].type = type})

\* C30: every signals list of get_trading_signals holds at most one
\* short_term, at most one medium_term and at most one long_term signal, so
\* between 1 and 3 signals in all; buy_dip never comes with buy or
\* strong_buy, and sell_rally never with sell or strong_sell.
C30_SignalsListShape ==
    ret.op = "signal_rules"
        => LET signals == ret.result.signals
               types == SignalTypes(signals)
           IN  /\ \A type \in {"short_term", "medium_term", "long_term"} :
                     CountOfType(signals, type) <= 1
               /\ Len(signals) >= 1
               /\ Len(signals) <= 3
               /\ "buy_dip" \in types
                     => types \cap {"buy", "strong_buy"} = {}
               /\ "sell_rally" \in types
                     => types \cap {"sell", "strong_sell"} = {}

\* Three signals, one of each group: a rally against a falling week.
C30_Witness ==
    /\ ret.op = "signal_rules"
    /\ Len(ret.result.signals) = 3
    /\ {"strong_buy", "sell_rally"}
          \subseteq SignalTypes(ret.result.signals)

(***************************************************************************)
(* Two get_top_yields requests for one cache key on the event loop.  A     *)
(* coroutine runs undisturbed between two awaits, so each request is three *)
(* steps: the lookup of lines 23-26 up to `await session.get`, the arrival *)
(* of the response status (lines 30-31, 78-83), and the arrival of the     *)
(* body followed by lines 33-77 in one piece.  The provider's listing may  *)
(* change between the two fetches.  hist logs the steps in their order.    *)
(***************************************************************************)
Requesters == 1..2

ListingA == <<[project |-> "aave", chain |-> "ethereum", apy |-> Num(8500),
               tvlUsd |-> 5000, volatility |-> Missing]>>
ListingB == <<[project |-> "aave", chain |-> "bsc", apy |-> Num(1004),
               tvlUsd |-> 5000, volatility |-> Missing],
              [project |-> "aave", chain |-> "ethereum", apy |-> Num(1004),
               tvlUsd |-> 600, volatility |-> Missing]>>
Listings == {ListingA, ListingB, << >>}

\* The key of an earlier request with other arguments, written at time 0.
OtherKey == KeyTopYields(5, 1000, NoChain)
OtherEntry == [data |-> TopYieldsBody(ListingA, 5, 1000, NoChain).results,
               expires |-> CACHE_TIMEOUT]

NewRequest == [pc |-> "start", from |-> "", result |-> << >>, at |-> 0,
               listing |-> << >>]

SharedKey == KeyTopYields(call.limit, call.min_tvl, call.chain)

InitConcurrent ==
    /\ cache = cache_result(<< >>, 0, OtherKey, OtherEntry.data, CACHE_TIMEOUT)
    /\ now = 0
    /\ pools \in Listings
    /\ \E limit \in {1, 2}, chain \in {NoChain, Chain("ethereum")} :
          call = [op |-> "get_top_yields", concurrent |-> TRUE,
                  limit |-> limit, min_tvl |-> 600, chain |-> chain]
    /\ ret = [op |-> "concurrent_top_yields",
              req |-> [i \in Requesters |-> NewRequest]]
    /\ hist = [kind |-> "concurrent", log |-> << >>]

Logged(i, step) == hist' = [hist EXCEPT !.log = Append(@, <<i, step>>)]

\* Lines 23-26: the lookup; a hit returns, a miss goes on to the request.
LookupTopYields(i) ==
    LET cached == get_cached_result(cache, now, SharedKey)
    IN  /\ ret.req[i].pc = "start"
        /\ cache' = cached.cache
        /\ ret' = IF cached.found /\ cached.data # << >>
                  THEN [ret EXCEPT !.req[i].pc = "done",
                                   !.req[i].from = "cache",
                                   !.req[i].result = cached.data,
                                   !.req[i].at = now]
                  ELSE [ret EXCEPT !.req[i].pc = "awaiting_response"]
        /\ Logged(i, "lookup")
        /\ UNCHANGED <<now, pools, call>>

\* Lines 30-31 and 78-83: the status arrives, or the transport fails.
ResponseArrives(i) ==
    /\ ret.req[i].pc = "awaiting_response"
    /\ \E outcome \in Outcomes(TRUE) :
          ret' = IF outcome = "ok"
                 THEN [ret EXCEPT !.req[i].pc = "awaiting_body"]
                 ELSE [ret EXCEPT !.req[i].pc = "done",
                                  !.req[i].from = outcome,
                                  !.req[i].at = now]
    /\ Logged(i, "response")
    /\ UNCHANGED <<cache, now, pools, call>>

\* Lines 32-77: the body arrives with the provider's listing of the moment;
\* the results are computed, written to the cache and returned.
BodyArrives(i) ==
    LET body == TopYieldsBody(pools, call.limit, call.min_tvl, call.chain)
    IN  /\ ret.req[i].pc = "awaiting_body"
        /\ \E outcome \in {"ok", "transport_error"} :
              IF outcome = "ok" /\ ~body.raised
              THEN /\ cache' = cache_result(cache, now, SharedKey,
                                            body.results, CACHE_TIMEOUT)
                   /\ ret' = [ret EXCEPT !.req[i].pc = "done",
                                         !.req[i].from = "fetch",
                                         !.req[i].result = body.results,
                                         !.req[i].at = now,
                                         !.req[i].listing = pools]
              ELSE /\ cache' = cache
                   /\ ret' = [ret EXCEPT
                                 !.req[i].pc = "done",
                                 !.req[i].from = IF outcome = "ok"
                                                 THEN "exception"
                                                 ELSE outcome,
                                 !.req[i].at = now]
        /\ Logged(i, "body")
        /\ UNCHANGED <<now, pools, call>>

\* The provider's listing changes while a request is still under way.
ProviderUpdates ==
    /\ \E i \in Requesters : ret.req[i].pc # "done"
    /\ pools' \in Listings \ {pools}
    /\ UNCHANGED <<cache, now, call, ret, hist>>

NextConcurrent ==
    \/ \E i \in Requesters : LookupTopYields(i)
    \/ \E i \in Requesters : ResponseArrives(i)
    \/ \E i \in Requesters : BodyArrives(i)
    \/ ProviderUpdates
    \/ Tick(CACHE_TIMEOUT \div 2)

SpecConcurrent == InitConcurrent /\ [][NextConcurrent]_vars

Req(i) == ret.req[i]

\* The complete result of request i's own fetch: lines 35-72 on the listing
\* it received.
OwnFetchResult(i) ==
    TopYieldsBody(Req(i).listing, call.limit, call.min_tvl,
                  call.chain).results

\* The entry request i wrote: its results with the expiry of its write.
EntryWrittenBy(i) ==
    [data |-> Req(i).result, expires |-> Req(i).at + CACHE_TIMEOUT]

\* C22: when two requests for one key are interleaved at the suspension
\* points of the fetch, each request that fetched returns the complete
\* result of its own fetch; the entry of the key is at every moment the
\* complete result of one of the fetches with the expiry of that write; no
\* request ends in an escaping exception and the entry of the other key is
\* never changed.
C22_InterleavedRequestsKeepEntriesWhole ==
    /\ \A i \in Requesters :
          Req(i).from = "fetch" => Req(i).result = OwnFetchResult(i)
    /\ SharedKey \in DOMAIN cache
          => \E i \in Requesters :
                Req(i).from = "fetch" /\ cache[SharedKey] = EntryWrittenBy(i)
    /\ (\A i \in Requesters : Req(i).from = "fetch")
          => SharedKey \in DOMAIN cache
    /\ \A i \in Requesters : Req(i).from # "raised"
    /\ OtherKey \in DOMAIN cache /\ cache[OtherKey] = OtherEntry

\* Both requests missed before either wrote, both fetched and both wrote,
\* their listings and results differ, and the entry is that of the later
\* write.
C22_Witness ==
    /\ \A i \in Requesters : Req(i).pc = "done" /\ Req(i).from = "fetch"
    /\ hist.log[1][2] = "lookup"
    /\ hist.log[2][2] = "lookup"
    /\ hist.log[1][1] # hist.log[2][1]
    /\ Req(1).result # Req(2).result
    /\ Req(1).result # << >>
    /\ Req(2).result # << >>
    /\ hist.log[6][1] = 1
    /\ cache[SharedKey] = EntryWrittenBy(1)
    /\ Req(2).at < Req(1).at

(***************************************************************************)
(* The command handlers of bot.py that list yields, and button_callback.   *)
(* call.user_data is context.user_data of the one user; ret is the reply   *)
(* the handler sent: its kind ("listing", "not_found", "usage", "error",   *)
(* "analysis", "explanation"), the indices of its analyze_yield buttons    *)
(* and, for a click, the record handed to the analysis.  A subscript       *)
(* record['field'] raises KeyError when the record has no such field; the  *)
(* handler's except branch then sends the generic error text.  hist        *)
(* remembers the listing the pipeline gave to the last listing command.    *)
(***************************************************************************)
\* get_top_yields(limit=10, min_tvl=1000000, chain=None)
DefaultMinTvl == 1000
\* get_yield_recommendations(risk_tolerance, min_tvl, limit=5)
DefaultRecommendationLimit == 5
\* limit = 5; min(int(context.args[0]), 20)
DefaultTopLimit == 5
MaxTopLimit == 20
\* range(min(3, len(yields)))
MaxButtons == 3
\* def get_yield_comparison(protocol1, protocol2)
ComparisonParameters == 2

\* The fields each handler subscripts while formatting its rows.
TopYieldsFields == {"project", "chain", "pool", "apy", "tvl", "ilRisk"}
ProtocolYieldsFields == {"pool", "chain", "apy", "tvl", "ilRisk"}
ChainYieldsFields == {"project", "pool", "apy", "tvl", "ilRisk"}
RecommendFields == {"project", "chain", "pool", "apy", "tvl", "ilRisk"}

NoRecord == [name |-> ""]

\* The reply to a listing: nothing found, a KeyError while formatting, or
\* the rows with the buttons 0 .. min(buttons, len) - 1.
ListingReply(yields, fields, buttons) ==
    IF yields = << >>
    THEN [reply |-> "not_found", buttons |-> << >>]
    ELSE IF \E i \in 1..Len(yields) : ~(fields \subseteq DOMAIN yields[i])
    THEN [reply |-> "error", buttons |-> << >>]
    ELSE [reply |-> "listing",
          buttons |-> [i \in 1..Min2(buttons, Len(yields)) |-> i - 1]]

BotReply(command, r, has_data) ==
    [op |-> command, reply |-> r.reply, buttons |-> r.buttons,
     has_data |-> has_data, data |-> [kind |-> "", index |-> 0],
     handed |-> NoRecord]

Shown(command, listing) ==
    [hist EXCEPT !.shown = [command |-> command, listing |-> listing]]

BotListing ==
    <<[project |-> "aave", chain |-> "Ethereum", apy |-> Num(8500),
       tvlUsd |-> 20000, volatility |-> Num(20)],
      [project |-> "aave", chain |-> "Ethereum", apy |-> Num(1004),
       tvlUsd |-> 5000, volatility |-> Missing],
      [project |-> "compound", chain |-> "bsc", apy |-> Num(12000),
       tvlUsd |-> 600, volatility |-> Num(90)],
      [project |-> "compound", chain |-> "Ethereum", apy |-> Num(3000),
       tvlUsd |-> 1000, volatility |-> Num(60)]>>

\* context.args[0] of /top_yields: absent, or a text with what isdigit()
\* and int() make of it.
NoArg == [given |-> FALSE, text |-> "", isdigit |-> FALSE, int |-> 0]
TopYieldsArgs ==
    {NoArg,
     [given |-> TRUE, text |-> "2", isdigit |-> TRUE, int |-> 2],
     [given |-> TRUE, text |-> "abc", isdigit |-> FALSE, int |-> 0]}
NameArgs(names) ==
    {NoArg} \cup {[given |-> TRUE, text |-> n, isdigit |-> FALSE, int |-> 0] :
                     n \in names}
\* context.args[0].split(',') of /compare_yields
CompareArgs == {<< >>, <<"aave">>, <<"aave", "Compound">>}

CallbackData ==
    {[kind |-> "analyze_yield", index |-> i] : i \in 0..(MaxButtons - 1)}
        \cup {[kind |-> "explain_comparison", index |-> 0]}

InitBot ==
    /\ cache = << >>
    /\ now = 0
    /\ pools \in {<< >>, BotListing}
    /\ call = [op |-> "bot",
               user_data |-> [yield_data |-> << >>,
                              comparison_data |-> << >>]]
    /\ ret = NoRet
    /\ hist = [kind |-> "bot",
               shown |-> [command |-> "", listing |-> << >>]]

\* bot.py lines 67-107
top_yields_command(arg) ==
    LET limit == IF arg.given /\ arg.isdigit
                 THEN Min2(arg.int, MaxTopLimit) ELSE DefaultTopLimit
    IN  \E outcome \in Outcomes(TopYieldsFetches(cache, now, limit,
                                                 DefaultMinTvl, NoChain)) :
           LET yields == get_top_yields(cache, now, pools, limit,
                                        DefaultMinTvl, NoChain, outcome)
           IN  /\ cache' = yields.cache
               /\ ret' = BotReply("top_yields",
                             ListingReply(yields.result, TopYieldsFields, 1),
                             yields.result # << >>)
               /\ hist' = Shown("top_yields", yields.result)
               /\ UNCHANGED <<now, pools, call>>

Usage(command) ==
    /\ ret' = BotReply(command, [reply |-> "usage", buttons |-> << >>],
                       FALSE)
    /\ UNCHANGED <<cache, now, pools, call, hist>>

\* bot.py lines 109-150
yield_by_protocol_command(arg) ==
    IF ~arg.given THEN Usage("yield_by_protocol")
    ELSE
    LET protocol == Lower(arg.text)
        fetches ==
            LET cached == get_cached_result(cache, now,
                              KeyProtocolYields(protocol,
                                                DefaultProtocolLimit))
            IN  ~(cached.found /\ cached.data # << >>)
    IN  \E outcome \in Outcomes(fetches) :
           LET yields == get_yield_by_protocol(cache, now, pools, protocol,
                                               DefaultProtocolLimit, outcome)
           IN  /\ cache' = yields.cache
               /\ ret' = BotReply("yield_by_protocol",
                             ListingReply(yields.result,
                                          ProtocolYieldsFields, MaxButtons),
                             yields.result # << >>)
               /\ hist' = Shown("yield_by_protocol", yields.result)
               /\ UNCHANGED <<now, pools, call>>

\* bot.py lines 152-193
yield_by_chain_command(arg) ==
    IF ~arg.given THEN Usage("yield_by_chain")
    ELSE
    LET chain == Lower(arg.text)
        fetches ==
            LET cached == get_cached_result(cache, now,
                              KeyChainYields(chain, DefaultProtocolLimit))
            IN  ~(cached.found /\ cached.data # << >>)
    IN  \E outcome \in Outcomes(fetches) :
           LET yields == get_yield_by_chain(cache, now, pools, chain,
                                            DefaultProtocolLimit, outcome)
           IN  /\ cache' = yields.cache
               /\ ret' = BotReply("yield_by_chain",
                             ListingReply(yields.result, ChainYieldsFields,
                                          MaxButtons),
                             yields.result # << >>)
               /\ hist' = Shown("yield_by_chain", yields.result)
               /\ UNCHANGED <<now, pools, call>>

\* bot.py lines 195-244.  With two or more names line 213 calls
\* get_yield_comparison with the one list as its only argument; the call
\* raises TypeError for the missing protocol2 before the operation runs.
compare_yields_command(protocols) ==
    IF protocols = << >> \/ Len(protocols) < 2
    THEN Usage("compare_yields")
    ELSE LET positional == <<[i \in 1..Len(protocols) |->
                                 Lower(protocols[i])]>>
             has_data ==
                 \E i \in 1..Len(pools) :
                    \E j \in 1..Len(protocols) :
                       Lower(pools[i].project) = Lower(protocols[j])
         IN  /\ Len(positional) # ComparisonParameters
             /\ ret' = BotReply("compare_yields",
                                [reply |-> "error", buttons |-> << >>],
                                has_data)
             /\ UNCHANGED <<cache, now, pools, call, hist>>

\* bot.py lines 246-291
recommend_yields_command(arg) ==
    LET preference == IF arg.given THEN Lower(arg.text) ELSE "all"
    IN  \E outcome \in Outcomes(TRUE) :
           LET recommendations ==
                   get_yield_recommendations(pools, Text(preference),
                       DefaultRecommendationLimit, outcome)
               reply == ListingReply(recommendations.result,
                                     RecommendFields, MaxButtons)
           IN  /\ ret' = BotReply("recommend_yields", reply,
                                  recommendations.result # << >>)
               /\ call' = IF reply.reply = "listing"
                          THEN [call EXCEPT !.user_data.yield_data =
                                               recommendations.result]
                          ELSE call
               /\ hist' = Shown("recommend_yields", recommendations.result)
               /\ UNCHANGED <<cache, now, pools>>

\* bot.py lines 507-543, for the callback data of the yield buttons
button_callback(data) ==
    LET yield_data == call.user_data.yield_data
        comparison_data == call.user_data.comparison_data
        said(reply, handed) ==
            [op |-> "button_callback", reply |-> reply, buttons |-> << >>,
             has_data |-> FALSE, data |-> data, handed |-> handed]
    IN  /\ ret' = IF data.kind = "analyze_yield"
                  THEN IF yield_data = << >> \/ data.index >= Len(yield_data)
                       THEN said("not_found", NoRecord)
                       ELSE said("analysis", yield_data[data.index + 1])
                  ELSE IF comparison_data = << >>
                       THEN said("not_found", NoRecord)
                       ELSE said("explanation", NoRecord)
        /\ UNCHANGED <<cache, now, pools, call, hist>>

NextBot ==
    \/ \E arg \in TopYieldsArgs : top_yields_command(arg)
    \/ \E arg \in NameArgs({"Aave"}) : yield_by_protocol_command(arg)
    \/ \E arg \in NameArgs({"Ethereum"}) : yield_by_chain_command(arg)
    \/ \E protocols \in CompareArgs : compare_yields_command(protocols)
    \/ \E arg \in NameArgs({"LOW"}) : recommend_yields_command(arg)
    \/ \E data \in CallbackData : button_callback(data)
    \/ Tick(CACHE_TIMEOUT \div 2)

SpecBot == InitBot /\ [][NextBot]_vars

ListingCommands ==
    {"top_yields", "yield_by_protocol", "yield_by_chain", "recommend_yields"}

\* The buttons the reply to the last listing command is to carry: one for
\* top_yields, up to three for the others.
ButtonsOfShown ==
    Min2(IF hist.shown.command = "top_yields" THEN 1 ELSE MaxButtons,
         Len(hist.shown.listing))

NoListingIsKept == call.op = "bot" => call.user_data.yield_data = << >>

\* C27: for top_yields, yield_by_protocol, yield_by_chain, compare_yields and
\* recommend_yields, when the pipeline operation has data for the arguments
\* the handler replies with the formatted result and its buttons and not
\* with the generic error text: the fields it reads are fields the records
\* carry and the operation is called with the arguments it accepts.
C27_HandlersReplyWithResult ==
    (ret.op \in ListingCommands \cup {"compare_yields"} /\ ret.has_data)
        => /\ ret.reply \in {"listing", "comparison"}
           /\ ret.buttons # << >>

\* The listing handlers do answer when the pipeline has nothing or the
\* argument is missing.
HandlersReplyWithoutData ==
    (ret.op \in ListingCommands /\ ~ret.has_data)
        => ret.reply \in {"not_found", "usage"}

(***************************************************************************)
(* Requests of several operations and argument tuples on the one cache.    *)
(* hist.writer remembers, per key, the request (operation and arguments)   *)
(* whose result the entry holds; ret.request is the request just served.   *)
(***************************************************************************)
KeyedChains == {NoChain, Chain("None"), Chain("Ethereum")}
KeyedNames == {"Ethereum"}

InitKeys ==
    /\ cache = << >>
    /\ now = 0
    /\ pools = BotListing
    /\ call = [op |-> "keyed_requests"]
    /\ ret = NoRet
    /\ hist = [kind |-> "keys", writer |-> << >>]

\* The request was served under cache_key: a fetch that wrote the entry
\* makes it the entry's writer.
Keyed(request, cache_key, r) ==
    /\ cache' = r.cache
    /\ ret' = [op |-> request.op, request |-> request, key |-> cache_key,
               from |-> r.from, result |-> r.result]
    /\ hist' = IF r.from = "fetch"
               THEN [hist EXCEPT !.writer =
                        [k \in DOMAIN hist.writer \cup {cache_key} |->
                            IF k = cache_key THEN request
                            ELSE hist.writer[k]]]
               ELSE hist
    /\ UNCHANGED <<now, pools, call>>

KeyedTopYields(chain) ==
    \E outcome \in Outcomes(TopYieldsFetches(cache, now, DefaultTopLimit,
                                             DefaultMinTvl, chain)) :
       Keyed([op |-> "get_top_yields", limit |-> DefaultTopLimit,
              min_tvl |-> DefaultMinTvl, chain |-> chain],
             KeyTopYields(DefaultTopLimit, DefaultMinTvl, chain),
             get_top_yields(cache, now, pools, DefaultTopLimit, DefaultMinTvl,
                            chain, outcome))

KeyedYieldByProtocol(protocol_name) ==
    LET cache_key == KeyProtocolYields(protocol_name, DefaultProtocolLimit)
        cached == get_cached_result(cache, now, cache_key)
    IN  \E outcome \in Outcomes(~(cached.found /\ cached.data # << >>)) :
           Keyed([op |-> "get_yield_by_protocol",
                  protocol_name |-> protocol_name,
                  limit |-> DefaultProtocolLimit],
                 cache_key,
                 get_yield_by_protocol(cache, now, pools, protocol_name,
                                       DefaultProtocolLimit, outcome))

KeyedYieldByChain(chain_name) ==
    LET cache_key == KeyChainYields(chain_name, DefaultProtocolLimit)
        cached == get_cached_result(cache, now, cache_key)
    IN  \E outcome \in Outcomes(~(cached.found /\ cached.data # << >>)) :
           Keyed([op |-> "get_yield_by_chain", chain_name |-> chain_name,
                  limit |-> DefaultProtocolLimit],
                 cache_key,
                 get_yield_by_chain(cache, now, pools, chain_name,
                                    DefaultProtocolLimit, outcome))

KeyedTokenSentiment(token_id) ==
    \E outcome \in Outcomes(TokenSentimentFetches(cache, now, token_id)) :
    \E snapshot \in AnswersFrom(FewSnapshots,
                                TokenSentimentFetches(cache, now, token_id),
                                outcome) :
       Keyed([op |-> "get_token_sentiment", token_id |-> token_id],
             KeyTokenSentiment(token_id),
             get_token_sentiment(cache, now, token_id, outcome, snapshot))

NextKeys ==
    \/ \E chain \in KeyedChains : KeyedTopYields(chain)
    \/ \E protocol_name \in KeyedNames : KeyedYieldByProtocol(protocol_name)
    \/ \E chain_name \in KeyedNames : KeyedYieldByChain(chain_name)
    \/ \E token_id \in KeyedNames : KeyedTokenSentiment(token_id)
    \/ Tick(CACHE_TIMEOUT \div 2)

SpecKeys == InitKeys /\ [][NextKeys]_vars

ServedFromCache == ret.op # "none" /\ ret.from = "cache"

\* C28: a cache hit returns a result that was computed for exactly the same
\* operation and arguments: the entry a request is served from was written
\* by a request of the same operation with the same argument tuple (chain
\* None and the chain text 'None' being different arguments).
C28_HitServesSameRequest ==
    ServedFromCache => hist.writer[ret.key] = ret.request

\* Keys of different operations never coincide: a hit is always served from
\* an entry of the same operation.
HitServesSameOperation ==
    ServedFromCache => hist.writer[ret.key].op = ret.op

(***************************************************************************)
(* ai_service.generate_ai_response.  The provider's reply is a transport   *)
(* failure or a status with a body; the body is what response.json()       *)
(* gives: it cannot be read, or it is JSON null, or an object whose        *)
(* 'choices' is missing, null, empty, or a list whose first element lacks  *)
(* 'message', has a 'message' that is no object or lacks 'content', or     *)
(* has a 'content', which JSON allows to be a text, null or a list of      *)
(* parts.  Returned values are records [t, s] as for text arguments.       *)
(***************************************************************************)
ApologyFormat == Text("Sorry, I couldn't generate a response at this time.")
ApologyStatus ==
    Text("Sorry, there was an error generating a response. Please try again later.")
ApologyUnexpected ==
    Text("Sorry, an unexpected error occurred. Please try again later.")
Apologies == {ApologyFormat, ApologyStatus, ApologyUnexpected}

ContentParts == [t |-> "list", s |-> ""]

\* Lines 37-42 on the parsed body.
ParseChoices(body) ==
    IF body.kind \in {"unreadable", "null", "choices_null", "no_message",
                      "message_not_object", "no_content"}
    THEN ApologyUnexpected
    ELSE IF body.kind \in {"no_choices", "choices_empty"}
    THEN ApologyFormat
    ELSE body.content

BodyKinds == {"unreadable", "null", "no_choices", "choices_null",
              "choices_empty", "no_message", "message_not_object",
              "no_content"}
Contents == {Text("hello"), Text(""), NoText, ContentParts}
Bodies == {[kind |-> k, content |-> NoText] : k \in BodyKinds}
              \cup {[kind |-> "content", content |-> c] : c \in Contents}
Statuses == {200, 201, 404, 500}
Replies == {[transport |-> "error", status |-> 0,
             body |-> [kind |-> "unreadable", content |-> NoText]]}
              \cup [transport : {"ok"}, status : Statuses, body : Bodies]
Prompts == {"what is aave", ""}

InitAI ==
    /\ cache = << >>
    /\ now = 0
    /\ pools = << >>
    /\ \E prompt \in Prompts, reply \in Replies :
          call = [op |-> "generate_ai_response", prompt |-> prompt,
                  reply |-> reply, pc |-> "post"]
    /\ ret = NoRet
    /\ hist = NoHist

AIReturns(value) ==
    /\ ret' = [op |-> "generate_ai_response", result |-> value]
    /\ call' = [call EXCEPT !.pc = "done"]

\* Lines 34-36: the request is posted and the status arrives, or the
\* transport raises and line 49 returns.
PostPrompt ==
    /\ call.op = "generate_ai_response"
    /\ call.pc = "post"
    /\ IF call.reply.transport = "error"
       THEN AIReturns(ApologyUnexpected)
       ELSE /\ call' = [call EXCEPT
                          !.pc = IF call.reply.status = 200 THEN "json"
                                 ELSE "text"]
            /\ ret' = ret
    /\ UNCHANGED <<cache, now, pools, hist>>

\* Lines 37-42: the body of a 200 reply.
ReadJson ==
    /\ call.op = "generate_ai_response"
    /\ call.pc = "json"
    /\ AIReturns(ParseChoices(call.reply.body))
    /\ UNCHANGED <<cache, now, pools, hist>>

\* Lines 44-46: the text of any other reply.
ReadErrorText ==
    /\ call.op = "generate_ai_response"
    /\ call.pc = "text"
    /\ AIReturns(IF call.reply.body.kind = "unreadable"
                 THEN ApologyUnexpected ELSE ApologyStatus)
    /\ UNCHANGED <<cache, now, pools, hist>>

NextAI ==
    \/ PostPrompt
    \/ ReadJson
    \/ ReadErrorText

SpecAI == InitAI /\ [][NextAI]_vars

AIReturned == ret.op = "generate_ai_response"

\* A 200 reply whose 'choices' is a non-empty list with a well-formed first
\* choice: it has a message object with a content.
HasFirstContent ==
    /\ call.reply.transport = "ok"
    /\ call.reply.status = 200
    /\ call.reply.body.kind = "content"

\* C23: generate_ai_response always returns text and never raises: on a 200
\* reply with a non-empty choices list it returns the first choice's message
\* content unchanged; on another status, a missing or empty choices list, a
\* malformed choice or a transport error it returns a fixed apology text.
C23_ReturnsContentOrApology ==
    AIReturned
        => /\ ret.result.t = "str"
           /\ HasFirstContent => ret.result = call.reply.body.content
           /\ ~HasFirstContent => ret.result \in Apologies

\* The same without "always text": the content comes back as it is,
\* whatever JSON value it is.
ReturnsContentUnchangedOrApology ==
    AIReturned
        => /\ HasFirstContent => ret.result = call.reply.body.content
           /\ ~HasFirstContent => ret.result \in Apologies

====
